---- MODULE Spec2Model ----
(***************************************************************************)
(* A model of notion-cli: the cursor-following list methods of             *)
(* NotionClient (client.py), the construction of the client, page          *)
(* creation, the write-direction property encoding of `database            *)
(* create-page` (commands/database.py) and the read-direction              *)
(* simplification of NotionDataFormatter (formatters.py).                  *)
(*                                                                         *)
(* Python values are modelled as follows.  A str is a sequence of          *)
(* one-character strings.  None is the record None.  A dict is a record    *)
(* or, where insertion order matters, a sequence of <<key, value>> pairs.  *)
(***************************************************************************)
EXTENDS Integers, Sequences, FiniteSets, TLC

VARIABLES
    \* ---- the paginated list methods of NotionClient ----
    script,          \* the responses the transport will serve, in order
    method,          \* the list method being executed
    pc,              \* position in the method
    results,         \* local `results`
    has_more,        \* local `has_more`
    start_cursor,    \* local `start_cursor`
    params_cursor,   \* params["start_cursor"], NoKey when the key is absent
    requests,        \* the start cursor carried by each request issued so far
    returned,        \* the value returned to the caller
    raised,          \* the error propagated to the caller
    \* ---- NotionClient.__init__ and NotionClient.create_page ----
    auth,            \* the `auth` argument of the constructor
    environ,         \* os.environ's NOTION_API_KEY
    self_auth,       \* self.auth
    clients,         \* the auth of every transport Client constructed
    fpc,             \* position of the facade object
    remote_calls,    \* the number of remote requests issued so far
    fraised,         \* the error raised by the constructor or a method
    create_args,     \* the arguments of the last create_page call
    create_request,  \* the keyword arguments it gave to pages.create
    \* ---- the command `database create-page` ----
    database_id,     \* the DATABASE_ID argument
    properties,      \* the --property arguments
    db_properties,   \* db_schema.get("properties", {})
    cpc,             \* position in the command
    prop_index,      \* the index of the next --property to encode
    page_properties, \* the request's properties built so far
    remote,          \* the remote requests issued so far
    echoed,          \* the warnings and errors printed so far
    exit_code,       \* the exit status, -1 while running
    \* ---- one function of the codec or the formatter applied to one input ----
    arg,             \* the input
    out,             \* the result
    ppc              \* which function is to be applied, or was

pagVars == <<script, method, pc, results, has_more, start_cursor,
             params_cursor, requests, returned, raised>>

facVars == <<auth, environ, self_auth, clients, fpc, remote_calls, fraised,
             create_args, create_request>>

cmdVars == <<database_id, properties, db_properties, cpc, prop_index,
             page_properties, remote, echoed, exit_code>>

pureVars == <<arg, out, ppc>>

vars == <<pagVars, facVars, cmdVars, pureVars>>

(***************************************************************************)
(* Bounds of the model.                                                    *)
(***************************************************************************)
MaxPages == 3

\* The longest parent id drawn character by character.
MaxIdLen == 3

PageSizes == {0, 2}

(***************************************************************************)
(* Python values.                                                          *)
(***************************************************************************)
\* Python's None, as a cursor value.
NoCursor == [tag |-> "none", n |-> 0]

\* The empty string "" as a cursor value.
EmptyCursor == [tag |-> "str", n |-> 0]

\* The non-empty cursor string returned with the i-th response.
Cursor(i) == [tag |-> "str", n |-> i]

\* The request carries no start_cursor key.
NoKey == [tag |-> "nokey", n |-> 0]

\* Python truthiness of a cursor value: None and "" are falsy.
Truthy(c) == c.tag = "str" /\ c.n > 0

\* No value: nothing was returned, nothing was raised.
Nothing == [tag |-> "nothing", n |-> 0]

(***************************************************************************)
(* The transport collaborator: it serves the responses of `script` in      *)
(* order, one per call, as a mock with side_effect does.  A response is    *)
(* either an error raised by the call or a mapping with "results", an      *)
(* optional "has_more" and an optional "next_cursor".                      *)
(***************************************************************************)
Items(i, size) == [j \in 1..size |-> <<i, j>>]

OkResponse(i, size, hm, cur) ==
    [kind |-> "ok", results |-> Items(i, size), has_more |-> hm,
     next_cursor |-> cur, error |-> Nothing]

ErrResponse(i) ==
    [kind |-> "error", results |-> <<>>, has_more |-> "absent",
     next_cursor |-> NoCursor, error |-> [tag |-> "APIResponseError", n |-> i]]

ResponsesAt(i) ==
    { OkResponse(i, size, hm, cur) :
        size \in PageSizes,
        hm \in {"true", "false", "absent"},
        cur \in {NoCursor, EmptyCursor, Cursor(i)} }
    \cup { ErrResponse(i) }

\* A response that ends the listing when the method honours it: an error, or
\* has_more false or absent.
Terminal(response) == response.kind = "error" \/ response.has_more # "true"

\* The response scripted after one that ended the listing.  It is only ever
\* served to a method that asks again after the end.
TailResponse(i) == OkResponse(i, 2, "false", Cursor(i))

Ended(s) == \E j \in 1..Len(s) : Terminal(s[j])

RECURSIVE ScriptsOfLen(_)
ScriptsOfLen(n) ==
    IF n = 0 THEN { <<>> }
    ELSE UNION { { Append(s, r) :
                     r \in IF Ended(s) THEN { TailResponse(n) } ELSE ResponsesAt(n) } :
                 s \in ScriptsOfLen(n - 1) }

Scripts == UNION { ScriptsOfLen(n) : n \in 0..MaxPages }

\* The k-th call of the single-page operation.  A call made after the last
\* scripted response fails, as the exhausted mock does.
Transport(s, k) ==
    IF k <= Len(s) THEN s[k] ELSE ErrResponse(k)

\* response.get("has_more", False)
GetHasMore(response) == response.has_more = "true"

\* response.get("next_cursor")
GetNextCursor(response) == response.next_cursor

(***************************************************************************)
(* The request parameters of each list method.  search and query_database  *)
(* build `params` once, before the loop, and only ever add the             *)
(* start_cursor key; the other three rebuild `params` in every iteration.  *)
(***************************************************************************)
Methods == {"search", "query_database", "get_block_children", "list_users",
            "get_comments"}

search_params(old, cursor) == IF Truthy(cursor) THEN cursor ELSE old

query_database_params(old, cursor) == IF Truthy(cursor) THEN cursor ELSE old

get_block_children_params(old, cursor) == IF Truthy(cursor) THEN cursor ELSE NoKey

list_users_params(old, cursor) == IF Truthy(cursor) THEN cursor ELSE NoKey

get_comments_params(old, cursor) == IF Truthy(cursor) THEN cursor ELSE NoKey

RequestParams(m, old, cursor) ==
    CASE m = "search" -> search_params(old, cursor)
      [] m = "query_database" -> query_database_params(old, cursor)
      [] m = "get_block_children" -> get_block_children_params(old, cursor)
      [] m = "list_users" -> list_users_params(old, cursor)
      [] m = "get_comments" -> get_comments_params(old, cursor)

RECURSIVE RunFrom(_, _, _, _, _, _)
\* The whole loop of method m against the scripted transport s, from the
\* state (requests sent, results gathered, start_cursor, cursor in params):
\* the requests it issues and what it returns or raises.
RunFrom(m, s, sent, gathered, cursor, old) ==
    LET request == RequestParams(m, old, cursor)
        response == Transport(s, Len(sent) + 1)
        issued == Append(sent, request)
    IN IF response.kind = "error"
       THEN [requests |-> issued, outcome |-> "raised", results |-> <<>>]
       ELSE IF GetHasMore(response)
       THEN RunFrom(m, s, issued, gathered \o response.results,
                    GetNextCursor(response), request)
       ELSE [requests |-> issued, outcome |-> "returned",
             results |-> gathered \o response.results]

\* One call of method m against the scripted transport s.
RunOf(m, s) == RunFrom(m, s, <<>>, <<>>, NoCursor, NoKey)

\* A loop that goes on for as long as the last response carried a cursor.
LoopGuard_cursor(hm) == hm \/ Truthy(start_cursor)

\* The loop condition `while has_more`.
LoopGuard(hm) == hm

\* A loop that catches the failure and returns what it has gathered.
OnFetchError_swallow(response) ==
    /\ pc' = "returned"
    /\ returned' = results
    /\ UNCHANGED <<results, has_more, start_cursor, raised>>

\* What one failed call does to the method: the exception is not caught.
OnFetchError(response) ==
    /\ pc' = "raised"
    /\ raised' = response.error
    /\ UNCHANGED <<results, has_more, start_cursor, returned>>

\* A loop that keeps only the page it fetched last.
OnFetchOk_overwrite(response) ==
    /\ results' = response.results
    /\ has_more' = GetHasMore(response)
    /\ start_cursor' = GetNextCursor(response)
    /\ UNCHANGED <<pc, returned, raised>>

\* A loop that never takes the cursor of the response.
OnFetchOk_keepCursor(response) ==
    /\ results' = results \o response.results
    /\ has_more' = GetHasMore(response)
    /\ start_cursor' = start_cursor
    /\ UNCHANGED <<pc, returned, raised>>

\* What one successful call does: the three statements after the call.
OnFetchOk(response) ==
    /\ results' = results \o response.results
    /\ has_more' = GetHasMore(response)
    /\ start_cursor' = GetNextCursor(response)
    /\ UNCHANGED <<pc, returned, raised>>

\* A caller invokes one of the list methods: the statements before the loop.
PagCall ==
    /\ pc = "start"
    /\ \E m \in Methods : method' = m
    /\ results' = <<>>
    /\ has_more' = TRUE
    /\ start_cursor' = NoCursor
    /\ params_cursor' = NoKey
    /\ pc' = "loop"
    /\ UNCHANGED <<script, requests, returned, raised>>
    /\ UNCHANGED <<facVars, cmdVars, pureVars>>

\* One iteration of the while loop.
PagFetch ==
    /\ pc = "loop"
    /\ LoopGuard(has_more)
    /\ LET sent == RequestParams(method, params_cursor, start_cursor)
           response == Transport(script, Len(requests) + 1)
       IN /\ params_cursor' = sent
          /\ requests' = Append(requests, sent)
          /\ IF response.kind = "error"
             THEN OnFetchError(response)
             ELSE OnFetchOk(response)
    /\ UNCHANGED <<script, method>>
    /\ UNCHANGED <<facVars, cmdVars, pureVars>>

\* The loop condition is false: `return results`.
PagReturn ==
    /\ pc = "loop"
    /\ ~LoopGuard(has_more)
    /\ pc' = "returned"
    /\ returned' = results
    /\ UNCHANGED <<script, method, results, has_more, start_cursor,
                   params_cursor, requests, raised>>
    /\ UNCHANGED <<facVars, cmdVars, pureVars>>

PagNext == PagCall \/ PagFetch \/ PagReturn

(***************************************************************************)
(* A server that holds the pages of a listing and answers a request by its *)
(* cursor: no cursor addresses the first page, the cursor of page i the    *)
(* page i.  Every page but the last says has_more and names the next page. *)
(***************************************************************************)
ServersOfLen(n) ==
    { [i \in 1..n |->
          IF i < n THEN OkResponse(i, sizes[i], "true", Cursor(i + 1))
          ELSE OkResponse(i, sizes[i], last.has_more, last.next_cursor)] :
      sizes \in [1..n -> PageSizes],
      last \in [has_more : {"false", "absent"},
                next_cursor : {NoCursor, EmptyCursor, Cursor(n + 1)}] }

Servers == UNION { ServersOfLen(n) : n \in 1..MaxPages }

\* The page a request addresses.
PageAddressed(cursor) == IF cursor = NoKey THEN 1 ELSE cursor.n

\* The answer of the server to a request.
Serve(pages, cursor) ==
    IF PageAddressed(cursor) \in 1..Len(pages)
    THEN pages[PageAddressed(cursor)]
    ELSE ErrResponse(PageAddressed(cursor))

\* One iteration of the while loop, against the server.
SrvFetch ==
    /\ pc = "loop"
    /\ LoopGuard(has_more)
    /\ LET sent == RequestParams(method, params_cursor, start_cursor)
           response == Serve(script, sent)
       IN /\ params_cursor' = sent
          /\ requests' = Append(requests, sent)
          /\ IF response.kind = "error"
             THEN OnFetchError(response)
             ELSE OnFetchOk(response)
    /\ UNCHANGED <<script, method>>
    /\ UNCHANGED <<facVars, cmdVars, pureVars>>

SrvNext == PagCall \/ SrvFetch \/ PagReturn

(***************************************************************************)
(* Python strings and optional values of the facade.                       *)
(***************************************************************************)
\* A str, as the sequence of its characters.
Str(chars) == [tag |-> "str", s |-> chars]

\* None, where a str is optional.
None == [tag |-> "none", s |-> <<>>]

\* Truthiness of an optional str: None and "" are falsy.
StrTruthy(v) == v.tag = "str" /\ Len(v.s) > 0

RECURSIVE Rep(_, _)
\* The character c repeated n times.
Rep(c, n) == IF n = 0 THEN <<>> ELSE <<c>> \o Rep(c, n - 1)

RECURSIVE SeqsUpTo(_, _)
\* Every sequence over `alphabet` of length at most n.
SeqsUpTo(alphabet, n) ==
    IF n = 0 THEN { <<>> }
    ELSE LET shorter == SeqsUpTo(alphabet, n - 1)
         IN shorter \cup { Append(t, c) : t \in shorter, c \in alphabet }

(***************************************************************************)
(* NotionClient.__init__ and _test_connection.                             *)
(***************************************************************************)
Credentials == { None, Str(<<>>), Str(<<"k", "1">>), Str(<<"k", "2">>) }

\* `auth or os.getenv("NOTION_API_KEY")` reading the environment first.
ResolveAuth_envFirst(a, env) == IF StrTruthy(env) THEN env ELSE a

\* `auth or os.getenv("NOTION_API_KEY")`
ResolveAuth(a, env) == IF StrTruthy(a) THEN a ELSE env

ValueError == [tag |-> "ValueError", n |-> 0]

ConnectionError == [tag |-> "ConnectionError", n |-> 0]

APIResponseError == [tag |-> "APIResponseError", n |-> 0]

\* __init__ up to and including `self.client = Client(auth=self.auth)`.
FacConstruct ==
    /\ fpc = "new"
    /\ self_auth' = ResolveAuth(auth, environ)
    /\ IF ~StrTruthy(self_auth')
       THEN /\ fraised' = ValueError
            /\ fpc' = "failed"
            /\ clients' = clients
       ELSE /\ clients' = Append(clients, self_auth')
            /\ fpc' = "testing"
            /\ fraised' = fraised
    /\ UNCHANGED <<auth, environ, remote_calls, create_args, create_request>>
    /\ UNCHANGED <<pagVars, cmdVars, pureVars>>

\* _test_connection: one search request; an APIResponseError becomes a
\* ConnectionError.
FacTestConnection ==
    /\ fpc = "testing"
    /\ remote_calls' = remote_calls + 1
    /\ \E ok \in BOOLEAN :
         IF ok
         THEN fpc' = "ready" /\ fraised' = fraised
         ELSE fpc' = "failed" /\ fraised' = ConnectionError
    /\ UNCHANGED <<auth, environ, self_auth, clients, create_args, create_request>>
    /\ UNCHANGED <<pagVars, cmdVars, pureVars>>

(***************************************************************************)
(* NotionClient.create_page.                                               *)
(***************************************************************************)
\* The length that marks a string parent as a database id.
DatabaseIdLen == 32

\* `"-" in parent`
HasHyphen(chars) == \E i \in 1..Len(chars) : chars[i] = "-"

\* A parent given as a mapping {key: id}.
ParentDict(key, chars) == [tag |-> "dict", key |-> key, s |-> chars]

\* A parent given as a string.
ParentStr(chars) == [tag |-> "str", key |-> "", s |-> chars]

\* The test's database id without hyphens, a UUID with hyphens, and a
\* 32-character id that contains hyphens.
HexId == Rep("a", 32)

UuidId == Rep("a", 8) \o <<"-">> \o Rep("a", 4) \o <<"-">> \o Rep("a", 4)
            \o <<"-">> \o Rep("a", 4) \o <<"-">> \o Rep("a", 12)

HyphenId32 == Rep("a", 8) \o <<"-">> \o Rep("a", 23)

ParentIds == SeqsUpTo({"a", "-"}, MaxIdLen) \cup { HexId, UuidId, HyphenId32 }

Parents ==
    { ParentStr(p) : p \in ParentIds }
    \cup { ParentDict(k, p) : k \in {"database_id", "page_id"}, p \in {HexId, UuidId} }
    \cup { ParentDict("workspace", <<>>) }

\* A classification that requires both conditions.
ClassifyParent_and(parent) ==
    IF parent.tag = "str"
    THEN IF Len(parent.s) = DatabaseIdLen /\ ~HasHyphen(parent.s)
         THEN ParentDict("database_id", parent.s)
         ELSE ParentDict("page_id", parent.s)
    ELSE parent

\* `if isinstance(parent, str): ...`
ClassifyParent(parent) ==
    IF parent.tag = "str"
    THEN IF Len(parent.s) = DatabaseIdLen \/ ~HasHyphen(parent.s)
         THEN ParentDict("database_id", parent.s)
         ELSE ParentDict("page_id", parent.s)
    ELSE parent

\* Optional arguments: None, an empty value, or a non-empty value.
Optionals == {"None", "empty", "given"}

\* Truthiness of an optional argument.
OptTruthy(v) == v = "given"

\* The keyword arguments create_page hands to pages.create.
CreateParams(parent, props, children, icon, cover) ==
    [parent |-> ClassifyParent(parent),
     properties |-> props,
     keys |-> {"parent", "properties"}
              \cup (IF OptTruthy(children) THEN {"children"} ELSE {})
              \cup (IF OptTruthy(icon) THEN {"icon"} ELSE {})
              \cup (IF OptTruthy(cover) THEN {"cover"} ELSE {})]

NoArgs == [parent |-> ParentStr(<<>>), properties |-> "none", children |-> "None",
           icon |-> "None", cover |-> "None"]

NoRequest == [parent |-> ParentStr(<<>>), properties |-> "none", keys |-> {}]

\* client.create_page(parent, properties, children, icon, cover)
FacCreatePage ==
    /\ fpc = "ready"
    /\ \E parent \in Parents, props \in {"props_a", "props_b"},
          children \in Optionals, icon \in Optionals, cover \in Optionals :
         /\ create_args' = [parent |-> parent, properties |-> props,
                            children |-> children, icon |-> icon,
                            cover |-> cover]
         /\ create_request' =
                CreateParams(parent, props, children, icon, cover)
    /\ remote_calls' = remote_calls + 1
    /\ fpc' = "created"
    /\ UNCHANGED <<auth, environ, self_auth, clients, fraised>>
    /\ UNCHANGED <<pagVars, cmdVars, pureVars>>

FacNext == FacConstruct \/ FacTestConnection \/ FacCreatePage

(***************************************************************************)
(* The specifications.  Each one runs one part of the program and leaves   *)
(* the variables of the other parts at rest.                               *)
(***************************************************************************)
(***************************************************************************)
(* Python string operations used by the commands.                          *)
(***************************************************************************)
\* Whitespace, as str.strip() and float() understand it.
IsSpace(c) == c \in {" ", "\t", "\n"}

RECURSIVE LStrip(_)
LStrip(s) == IF s # <<>> /\ IsSpace(Head(s)) THEN LStrip(Tail(s)) ELSE s

RECURSIVE RStrip(_)
RStrip(s) ==
    IF s # <<>> /\ IsSpace(s[Len(s)]) THEN RStrip(SubSeq(s, 1, Len(s) - 1)) ELSE s

\* str.strip()
Strip(s) == RStrip(LStrip(s))

\* The index of the first occurrence of one of `cs` in s, 0 when there is none.
Find(s, cs) ==
    IF \E i \in 1..Len(s) : s[i] \in cs
    THEN CHOOSE i \in 1..Len(s) : s[i] \in cs /\ \A j \in 1..(i - 1) : s[j] \notin cs
    ELSE 0

RECURSIVE Split(_, _)
\* str.split(sep) for a one-character separator.
Split(s, sep) ==
    LET i == Find(s, {sep})
    IN IF i = 0 THEN << s >>
       ELSE << SubSeq(s, 1, i - 1) >> \o Split(SubSeq(s, i + 1, Len(s)), sep)

Uppers == << "A", "B", "C", "D", "E", "F", "G", "H", "I", "J", "K", "L", "M",
             "N", "O", "P", "Q", "R", "S", "T", "U", "V", "W", "X", "Y", "Z" >>

Lowers == << "a", "b", "c", "d", "e", "f", "g", "h", "i", "j", "k", "l", "m",
             "n", "o", "p", "q", "r", "s", "t", "u", "v", "w", "x", "y", "z" >>

LowerChar(c) ==
    IF \E i \in DOMAIN Uppers : Uppers[i] = c
    THEN Lowers[CHOOSE i \in DOMAIN Uppers : Uppers[i] = c]
    ELSE c

RECURSIVE Lower(_)
\* str.lower()
Lower(s) == IF s = <<>> THEN <<>> ELSE << LowerChar(Head(s)) >> \o Lower(Tail(s))

DigitChars == << "0", "1", "2", "3", "4", "5", "6", "7", "8", "9" >>

IsDigit(c) == \E i \in DOMAIN DigitChars : DigitChars[i] = c

DigitVal(c) == (CHOOSE i \in DOMAIN DigitChars : DigitChars[i] = c) - 1

(***************************************************************************)
(* float(value).  The result is the decimal value num * 10^exp, an         *)
(* infinity, a NaN, or the ValueError raised for a string that is not a    *)
(* float literal.  The strings drawn below stay within the range of a      *)
(* double, so no literal overflows to an infinity.                         *)
(***************************************************************************)
\* digit (["_"] digit)*
ValidDigitPart(d) ==
    /\ d # <<>>
    /\ IsDigit(d[1])
    /\ IsDigit(d[Len(d)])
    /\ \A i \in 1..Len(d) :
         IsDigit(d[i]) \/ (d[i] = "_" /\ IsDigit(d[i - 1]) /\ IsDigit(d[i + 1]))

RECURSIVE DigitsValue(_, _)
\* The number the digits of d denote, appended to the number acc.
DigitsValue(d, acc) ==
    IF d = <<>> THEN acc
    ELSE IF Head(d) = "_" THEN DigitsValue(Tail(d), acc)
    ELSE DigitsValue(Tail(d), 10 * acc + DigitVal(Head(d)))

DigitCount(d) == Cardinality({ i \in 1..Len(d) : IsDigit(d[i]) })

RECURSIVE Normalize(_, _, _)
\* num * 10^exp with the trailing zeros of num moved into exp.
Normalize(neg, num, exp) ==
    IF num = 0 THEN [tag |-> "float", kind |-> "finite", neg |-> neg, num |-> 0, exp |-> 0]
    ELSE IF num % 10 = 0 THEN Normalize(neg, num \div 10, exp + 1)
    ELSE [tag |-> "float", kind |-> "finite", neg |-> neg, num |-> num, exp |-> exp]

FloatError == [tag |-> "ValueError", kind |-> "error", neg |-> FALSE, num |-> 0, exp |-> 0]

\* float(chars)
PyFloat(chars) ==
    LET t == Strip(chars)
        signed == t # <<>> /\ Head(t) \in {"+", "-"}
        neg == signed /\ Head(t) = "-"
        body == IF signed THEN Tail(t) ELSE t
        low == Lower(body)
    IN IF low \in { <<"i", "n", "f">>, <<"i", "n", "f", "i", "n", "i", "t", "y">> }
       THEN [tag |-> "float", kind |-> "inf", neg |-> neg, num |-> 0, exp |-> 0]
       ELSE IF low = <<"n", "a", "n">>
       THEN [tag |-> "float", kind |-> "nan", neg |-> neg, num |-> 0, exp |-> 0]
       ELSE
         LET epos == Find(low, {"e"})
             mant == IF epos = 0 THEN body ELSE SubSeq(body, 1, epos - 1)
             expo == IF epos = 0 THEN <<>> ELSE SubSeq(body, epos + 1, Len(body))
             dot == Find(mant, {"."})
             ip == IF dot = 0 THEN mant ELSE SubSeq(mant, 1, dot - 1)
             fp == IF dot = 0 THEN <<>> ELSE SubSeq(mant, dot + 1, Len(mant))
             esigned == expo # <<>> /\ Head(expo) \in {"+", "-"}
             eneg == esigned /\ Head(expo) = "-"
             edigits == IF esigned THEN Tail(expo) ELSE expo
             mantOK == /\ ip = <<>> \/ ValidDigitPart(ip)
                       /\ fp = <<>> \/ ValidDigitPart(fp)
                       /\ ip # <<>> \/ fp # <<>>
             expOK == epos = 0 \/ ValidDigitPart(edigits)
             e == IF epos = 0 THEN 0
                  ELSE IF eneg THEN 0 - DigitsValue(edigits, 0)
                  ELSE DigitsValue(edigits, 0)
         IN IF mantOK /\ expOK
            THEN Normalize(neg, DigitsValue(fp, DigitsValue(ip, 0)), e - DigitCount(fp))
            ELSE FloatError

(***************************************************************************)
(* Property payloads.  A property is a mapping with an optional "type"     *)
(* and one payload key; a rich-text run is a mapping with an optional      *)
(* "plain_text" and an optional text content.                              *)
(***************************************************************************)
Prop(type, key, val) == [type |-> type, key |-> key, val |-> val]

\* {"type": "text", "text": {"content": content}}: the run the commands build.
TextRun(content) == [type |-> "text", plain_text |-> None, content |-> Str(content)]

List(items) == [tag |-> "list", items |-> items]

Bool(b) == [tag |-> "bool", b |-> b]

\* {"name": name}
Option(name) == [tag |-> "option", name |-> Str(name)]

\* {"start": start}
DateValue(start) == [tag |-> "date", start |-> Str(start)]

TrueWords == { <<"t", "r", "u", "e">>, <<"1">>, <<"y", "e", "s">> }

\* An encoding of multi_select that keeps the parts untrimmed.
MultiSelectOptions_raw(value) ==
    LET parts == Split(value, ",")
    IN [i \in 1..Len(parts) |-> Option(parts[i])]

\* values = [v.strip() for v in value.split(",")]; [{"name": v} for v in values]
MultiSelectOptions(value) ==
    LET parts == Split(value, ",")
    IN [i \in 1..Len(parts) |-> Option(Strip(parts[i]))]

\* An encoder that gives up on a bad number with a warning, as it does on a
\* type it cannot write.
EncodeProperty_lenient(prop_type, value) ==
    CASE prop_type = "number" /\ PyFloat(value).tag # "ValueError" ->
           [outcome |-> "set", prop |-> Prop("absent", "number", PyFloat(value))]
      [] prop_type = "multi_select" ->
           [outcome |-> "set", prop |-> Prop("absent", "multi_select", List(MultiSelectOptions(value)))]
      [] prop_type \in {"title", "rich_text"} ->
           [outcome |-> "set", prop |-> Prop("absent", prop_type, List(<< TextRun(value) >>))]
      [] OTHER ->
           [outcome |-> "warn", prop |-> None]

\* An encoder for which a type it cannot write is an error.
EncodeProperty_strict(prop_type, value) ==
    CASE prop_type = "title" ->
           [outcome |-> "set", prop |-> Prop("absent", "title", List(<< TextRun(value) >>))]
      [] prop_type = "rich_text" ->
           [outcome |-> "set", prop |-> Prop("absent", "rich_text", List(<< TextRun(value) >>))]
      [] prop_type = "number" ->
           IF PyFloat(value).tag = "ValueError"
           THEN [outcome |-> "error", prop |-> None]
           ELSE [outcome |-> "set", prop |-> Prop("absent", "number", PyFloat(value))]
      [] prop_type = "checkbox" ->
           [outcome |-> "set", prop |-> Prop("absent", "checkbox", Bool(Lower(value) \in TrueWords))]
      [] prop_type = "select" ->
           [outcome |-> "set", prop |-> Prop("absent", "select", Option(value))]
      [] prop_type = "multi_select" ->
           [outcome |-> "set", prop |-> Prop("absent", "multi_select", List(MultiSelectOptions(value)))]
      [] prop_type = "date" ->
           [outcome |-> "set", prop |-> Prop("absent", "date", DateValue(value))]
      [] prop_type = "url" ->
           [outcome |-> "set", prop |-> Prop("absent", "url", Str(value))]
      [] prop_type = "email" ->
           [outcome |-> "set", prop |-> Prop("absent", "email", Str(value))]
      [] prop_type = "phone_number" ->
           [outcome |-> "set", prop |-> Prop("absent", "phone_number", Str(value))]
      [] OTHER ->
           [outcome |-> "error", prop |-> None]

\* The if/elif chain of `database create-page`: the payload for a value of a
\* property of the declared type, the error of a bad number, or the warning
\* of a type that cannot be written.
EncodeProperty(prop_type, value) ==
    CASE prop_type = "title" ->
           [outcome |-> "set", prop |-> Prop("absent", "title", List(<< TextRun(value) >>))]
      [] prop_type = "rich_text" ->
           [outcome |-> "set", prop |-> Prop("absent", "rich_text", List(<< TextRun(value) >>))]
      [] prop_type = "number" ->
           IF PyFloat(value).tag = "ValueError"
           THEN [outcome |-> "error", prop |-> None]
           ELSE [outcome |-> "set", prop |-> Prop("absent", "number", PyFloat(value))]
      [] prop_type = "checkbox" ->
           [outcome |-> "set", prop |-> Prop("absent", "checkbox", Bool(Lower(value) \in TrueWords))]
      [] prop_type = "select" ->
           [outcome |-> "set", prop |-> Prop("absent", "select", Option(value))]
      [] prop_type = "multi_select" ->
           [outcome |-> "set", prop |-> Prop("absent", "multi_select", List(MultiSelectOptions(value)))]
      [] prop_type = "date" ->
           [outcome |-> "set", prop |-> Prop("absent", "date", DateValue(value))]
      [] prop_type = "url" ->
           [outcome |-> "set", prop |-> Prop("absent", "url", Str(value))]
      [] prop_type = "email" ->
           [outcome |-> "set", prop |-> Prop("absent", "email", Str(value))]
      [] prop_type = "phone_number" ->
           [outcome |-> "set", prop |-> Prop("absent", "phone_number", Str(value))]
      [] OTHER ->
           [outcome |-> "warn", prop |-> None]

(***************************************************************************)
(* The command `database create-page DATABASE_ID --property name=value`.   *)
(***************************************************************************)
\* dict[name] = value on a dict kept as the sequence of its items.
DictSet(d, name, value) ==
    IF \E i \in 1..Len(d) : d[i].name = name
    THEN [i \in 1..Len(d) |-> IF d[i].name = name
                              THEN [name |-> name, value |-> value] ELSE d[i]]
    ELSE Append(d, [name |-> name, value |-> value])

\* name in dict
DictHas(d, name) == \E i \in 1..Len(d) : d[i].name = name

\* dict[name]
DictGet(d, name) == d[CHOOSE i \in 1..Len(d) : d[i].name = name].value

\* The schema the database holds: the type each property declares.
SchemaProperties ==
    << [name |-> <<"N", "a", "m", "e">>, value |-> "title"],
       [name |-> <<"C", "o", "u", "n", "t">>, value |-> "number"],
       [name |-> <<"T", "a", "g", "s">>, value |-> "multi_select"],
       [name |-> <<"O", "w", "n", "e", "r">>, value |-> "people"] >>

\* The property names a user may type: those of the schema and one more.
CmdNames == { SchemaProperties[i].name : i \in 1..Len(SchemaProperties) }
            \cup { <<"G", "h", "o", "s", "t">> }

CmdValues == { <<"4", "2">>, <<"a", "b", "c">>, <<"n", "a", "n">>,
               <<"A", ",", " ", "B", ",", "C">>, <<>> }

\* The --property arguments: name=value, and one without "=".
CmdProps == { n \o <<"=">> \o v : n \in CmdNames, v \in CmdValues }
            \cup { <<"C", "o", "u", "n", "t">> }

\* The most --property options given to one command.
MaxProps == 2

RECURSIVE ArgLists(_)
\* Every list of at most n --property arguments.
ArgLists(n) ==
    IF n = 0 THEN { <<>> }
    ELSE LET shorter == ArgLists(n - 1)
         IN shorter \cup { Append(l, p) : l \in { s \in shorter : Len(s) = n - 1 },
                                          p \in CmdProps }

RemoteCall(op, request) == [op |-> op, request |-> request]

\* handle_error(e, debug): the error is shown and the process exits with 1.
\* ctx.exit(1) raises click's Exit inside the try block and ends there too.
CmdFail(message) ==
    /\ echoed' = Append(echoed, message)
    /\ exit_code' = 1
    /\ cpc' = "exit"

\* client = NotionClient(config.api_key): the connection test.
CmdConnect ==
    /\ cpc = "start"
    /\ remote' = Append(remote, RemoteCall("search", None))
    /\ \E ok \in BOOLEAN :
         IF ok
         THEN cpc' = "connected" /\ UNCHANGED <<echoed, exit_code>>
         ELSE CmdFail([msg |-> "ConnectionError", name |-> <<>>])
    /\ UNCHANGED <<database_id, properties, db_properties, prop_index,
                   page_properties>>
    /\ UNCHANGED <<pagVars, facVars, pureVars>>

\* db_schema = client.get_database(database_id)
CmdGetDatabase ==
    /\ cpc = "connected"
    /\ remote' = Append(remote, RemoteCall("databases.retrieve", Str(database_id)))
    /\ \E ok \in BOOLEAN :
         IF ok
         THEN /\ db_properties' = SchemaProperties
              /\ cpc' = "loop"
              /\ UNCHANGED <<echoed, exit_code>>
         ELSE /\ CmdFail([msg |-> "APIResponseError", name |-> <<>>])
              /\ UNCHANGED db_properties
    /\ UNCHANGED <<database_id, properties, prop_index, page_properties>>
    /\ UNCHANGED <<pagVars, facVars, pureVars>>

\* One iteration of `for prop in properties`.
CmdProperty ==
    /\ cpc = "loop"
    /\ prop_index <= Len(properties)
    /\ LET prop == properties[prop_index]
           eq == Find(prop, {"="})
           name == SubSeq(prop, 1, eq - 1)
           value == SubSeq(prop, eq + 1, Len(prop))
       IN IF eq = 0
          THEN /\ CmdFail([msg |-> "Error: Invalid property format", name |-> prop])
               /\ UNCHANGED page_properties
          ELSE IF ~DictHas(db_properties, name)
          THEN /\ echoed' = Append(echoed, [msg |-> "Warning: not found in database schema",
                                            name |-> name])
               /\ UNCHANGED <<page_properties, exit_code, cpc>>
          ELSE LET prop_type == DictGet(db_properties, name)
                   encoded == EncodeProperty(prop_type, value)
               IN CASE encoded.outcome = "set" ->
                         /\ page_properties' = DictSet(page_properties, name, encoded.prop)
                         /\ UNCHANGED <<echoed, exit_code, cpc>>
                    [] encoded.outcome = "error" ->
                         /\ CmdFail([msg |-> "Error: Invalid number value", name |-> name])
                         /\ UNCHANGED page_properties
                    [] encoded.outcome = "warn" ->
                         /\ echoed' = Append(echoed, [msg |-> "Warning: Unsupported property type",
                                                      name |-> name])
                         /\ UNCHANGED <<page_properties, exit_code, cpc>>
    /\ prop_index' = prop_index + 1
    /\ UNCHANGED <<database_id, properties, db_properties, remote>>
    /\ UNCHANGED <<pagVars, facVars, pureVars>>

\* page_data = client.create_page(parent=database_id, properties=page_properties)
\* and print_output(page_data, ...).
CmdCreatePage ==
    /\ cpc = "loop"
    /\ prop_index > Len(properties)
    /\ remote' = Append(remote,
                   RemoteCall("pages.create",
                              CreateParams(ParentStr(database_id), page_properties,
                                           "None", "None", "None")))
    /\ \E ok \in BOOLEAN :
         IF ok
         THEN /\ cpc' = "done"
              /\ exit_code' = 0
              /\ UNCHANGED echoed
         ELSE CmdFail([msg |-> "APIResponseError", name |-> <<>>])
    /\ UNCHANGED <<database_id, properties, db_properties, prop_index,
                   page_properties>>
    /\ UNCHANGED <<pagVars, facVars, pureVars>>

CmdNext == CmdConnect \/ CmdGetDatabase \/ CmdProperty \/ CmdCreatePage

(***************************************************************************)
(* The encoder on its own: one property type and one value.                *)
(***************************************************************************)
\* The longest value drawn character by character.
MaxValLen == 4

PropTypes == {"title", "rich_text", "number", "checkbox", "select",
              "multi_select", "date", "url", "email", "phone_number",
              "relation", "people", "formula"}

CodecValues ==
    SeqsUpTo({"A", "B", ",", " "}, MaxValLen)
    \cup SeqsUpTo({"4", "2", ".", "-", "e", " "}, MaxValLen)
    \cup { <<"A", ",", " ", "B", ",", "C">>, <<"a", "b", "c">>,
           <<"n", "a", "n">>, <<"-", "I", "n", "f">>,
           <<"4", "_", "2">>, <<"4", "_", "_", "2">>,
           <<"Y", "e", "s">>, <<"T", "R", "U", "E">>, <<"1">> }

\* The encoder applied to the drawn type and value.
CodecEncode ==
    /\ ppc = "encode"
    /\ out' = EncodeProperty(arg.prop_type, arg.value)
    /\ ppc' = "encoded"
    /\ UNCHANGED arg
    /\ UNCHANGED <<pagVars, facVars, cmdVars>>

CodecNext == CodecEncode

(***************************************************************************)
(* NotionDataFormatter: the read direction.  A property as the API returns *)
(* it carries its "type" and, under the key named after the type, its      *)
(* payload; either may be missing.  Prop("absent", ...) has no "type" and  *)
(* Prop(type, "absent", None) has no payload key.                          *)
(***************************************************************************)
\* {"type": "text", "plain_text": text}: a run as the API returns it.
ApiRun(text) == [type |-> "text", plain_text |-> Str(text), content |-> Str(text)]

\* dict.get(key, default) on a property.
PropGet(prop, key, default) == IF prop.key = key THEN prop.val ELSE default

RECURSIVE JoinPlainText(_)
\* "".join([t.get("plain_text", "") for t in rich_text])
JoinPlainText(runs) ==
    IF runs = <<>> THEN <<>>
    ELSE (IF Head(runs).plain_text = None THEN <<>> ELSE Head(runs).plain_text.s)
         \o JoinPlainText(Tail(runs))

\* _get_text_from_rich_text(rich_text): None and [] give "".
GetTextFromRichText(rich_text) ==
    IF rich_text = None \/ rich_text.items = <<>>
    THEN Str(<<>>)
    ELSE Str(JoinPlainText(rich_text.items))

\* _get_title_from_property(prop)
GetTitleFromProperty(prop) == GetTextFromRichText(PropGet(prop, "title", List(<<>>)))

\* _get_title_from_rich_text(rich_text)
GetTitleFromRichText(rich_text) == GetTextFromRichText(rich_text)

\* Iterating over None raises.
TypeError == [tag |-> "TypeError", s |-> <<>>]

\* [s.get("name") for s in options]
OptionNames(options) ==
    IF options = None THEN TypeError
    ELSE List([i \in 1..Len(options.items) |-> options.items[i].name])

\* A simplification that reads the name of the selection without looking
\* whether there is one.
SimplifyProperty_unguarded(prop) ==
    IF prop.type = "select"
    THEN IF PropGet(prop, "select", None) = None THEN TypeError
         ELSE PropGet(prop, "select", None).name
    ELSE IF prop.type = "checkbox" THEN PropGet(prop, "checkbox", None)
    ELSE IF prop.type = "multi_select"
    THEN OptionNames(PropGet(prop, "multi_select", None))
    ELSE prop

\* The body of the loop of _simplify_properties: the display value of one
\* property.
SimplifyProperty(prop) ==
    CASE prop.type = "title" -> GetTitleFromProperty(prop)
      [] prop.type = "rich_text" ->
           GetTextFromRichText(PropGet(prop, "rich_text", List(<<>>)))
      [] prop.type = "number" -> PropGet(prop, "number", None)
      [] prop.type = "select" ->
           LET select == PropGet(prop, "select", None)
           IN IF select # None THEN select.name ELSE None
      [] prop.type = "multi_select" ->
           OptionNames(PropGet(prop, "multi_select", List(<<>>)))
      [] prop.type = "date" ->
           LET date == PropGet(prop, "date", None)
           IN IF date # None THEN date.start ELSE None
      [] prop.type = "checkbox" -> PropGet(prop, "checkbox", Bool(FALSE))
      [] prop.type = "url" -> PropGet(prop, "url", None)
      [] prop.type = "email" -> PropGet(prop, "email", None)
      [] prop.type = "phone_number" -> PropGet(prop, "phone_number", None)
      [] prop.type = "relation" ->
           LET relation == PropGet(prop, "relation", List(<<>>))
           IN IF relation = None THEN TypeError
              ELSE List([i \in 1..Len(relation.items) |-> relation.items[i].id])
      [] prop.type = "people" ->
           LET people == PropGet(prop, "people", List(<<>>))
           IN IF people = None THEN TypeError
              ELSE List([i \in 1..Len(people.items) |->
                           IF people.items[i].name # None
                           THEN people.items[i].name ELSE people.items[i].id])
      [] OTHER -> prop

\* _simplify_properties(properties): the simplified map, in the order of the
\* input, or the error raised on the way.
SimplifyProperties(props) ==
    IF \E i \in 1..Len(props) : SimplifyProperty(props[i].value) = TypeError
    THEN [raised |-> TRUE, dict |-> <<>>]
    ELSE [raised |-> FALSE,
          dict |-> [i \in 1..Len(props) |->
                      [name |-> props[i].name, value |-> SimplifyProperty(props[i].value)]]]

(***************************************************************************)
(* The properties drawn for simplification: for every variant its unset    *)
(* forms (no payload key; null where the variant is nullable; the empty    *)
(* sequence where it is a sequence) and a set form.                        *)
(***************************************************************************)
Hi == <<"H", "i">>

Person(name, id) == [tag |-> "user", name |-> name, id |-> Str(id)]

Ref(id) == [tag |-> "ref", id |-> Str(id)]

ReadProps ==
    { Prop(t, "absent", None) :
        t \in {"title", "rich_text", "number", "select", "multi_select", "date",
               "checkbox", "url", "email", "phone_number", "relation", "people",
               "formula", "absent"} }
    \cup { Prop(t, t, None) :
        t \in {"title", "rich_text", "number", "select", "date", "url", "email",
               "phone_number"} }
    \cup { Prop(t, t, List(<<>>)) :
        t \in {"title", "rich_text", "multi_select", "relation", "people"} }
    \cup { Prop("title", "title", List(<< ApiRun(Hi), ApiRun(<<"!">>) >>)),
           Prop("rich_text", "rich_text", List(<< ApiRun(Hi) >>)),
           Prop("rich_text", "rich_text", List(<< TextRun(Hi) >>)),
           Prop("number", "number", PyFloat(<<"4", "2">>)),
           Prop("select", "select", Option(Hi)),
           Prop("multi_select", "multi_select", List(<< Option(Hi), Option(<<"A">>) >>)),
           Prop("date", "date", DateValue(<<"2", "0", "2", "4">>)),
           Prop("checkbox", "checkbox", Bool(TRUE)),
           Prop("checkbox", "checkbox", Bool(FALSE)),
           Prop("url", "url", Str(Hi)),
           Prop("relation", "relation", List(<< Ref(<<"r", "1">>) >>)),
           Prop("people", "people", List(<< Person(Str(Hi), <<"u", "1">>),
                                             Person(None, <<"u", "2">>) >>)),
           Prop("formula", "formula", Str(Hi)),
           Prop("absent", "title", List(<< TextRun(Hi) >>)) }

\* The most properties of one page.
MaxMapLen == 2

\* The key of the i-th property of a page.
KeyName(i) == <<"P", DigitChars[i + 1]>>

\* Every property map of at most n properties, each drawn from `props`.
PropMaps(props, n) ==
    { [i \in 1..Len(vs) |-> [name |-> KeyName(i), value |-> vs[i]]] :
        vs \in SeqsUpTo(props, n) }

(***************************************************************************)
(* print_output and the simplifications it routes to.  An object of the    *)
(* API is a record of the keys it carries; a key it lacks is not in the    *)
(* record's domain.                                                        *)
(***************************************************************************)
\* dict.get(key, default) on an object.
Field(obj, key, default) == IF key \in DOMAIN obj THEN obj[key] ELSE default

\* The characters of the names that occur as values.
Chars(name) ==
    CASE name = "page" -> <<"p", "a", "g", "e">>
      [] name = "database" -> <<"d", "a", "t", "a", "b", "a", "s", "e">>
      [] name = "block" -> <<"b", "l", "o", "c", "k">>
      [] name = "user" -> <<"u", "s", "e", "r">>
      [] name = "list" -> <<"l", "i", "s", "t">>
      [] name = "formula" -> <<"f", "o", "r", "m", "u", "l", "a">>
      [] name = "select" -> <<"s", "e", "l", "e", "c", "t">>
      [] name = "multi_select" ->
           <<"m", "u", "l", "t", "i", "_", "s", "e", "l", "e", "c", "t">>
      [] name = "relation" -> <<"r", "e", "l", "a", "t", "i", "o", "n">>
      [] name = "title" -> <<"t", "i", "t", "l", "e">>
      [] name = "number" -> <<"n", "u", "m", "b", "e", "r">>
      [] name = "checkbox" -> <<"c", "h", "e", "c", "k", "b", "o", "x">>
      [] name = "paragraph" -> <<"p", "a", "r", "a", "g", "r", "a", "p", "h">>
      [] name = "image" -> <<"i", "m", "a", "g", "e">>
      [] name = "code" -> <<"c", "o", "d", "e">>
      [] name = "divider" -> <<"d", "i", "v", "i", "d", "e", "r">>
      [] name = "None" -> <<"N", "o", "n", "e">>
      [] name = "type" -> <<"t", "y", "p", "e">>
      [] name = "id" -> <<"i", "d">>
      [] name = "url" -> <<"u", "r", "l">>
      [] name = "last_edited" -> <<"l", "a", "s", "t", "_", "e", "d", "i", "t", "e", "d">>
      [] name = "created_time" ->
           <<"c", "r", "e", "a", "t", "e", "d", "_", "t", "i", "m", "e">>
      [] name = "last_edited_time" ->
           <<"l", "a", "s", "t", "_", "e", "d", "i", "t", "e", "d", "_", "t", "i", "m", "e">>
      [] name = "archived" -> <<"a", "r", "c", "h", "i", "v", "e", "d">>
      [] name = "properties" -> <<"p", "r", "o", "p", "e", "r", "t", "i", "e", "s">>
      [] name = "parent" -> <<"p", "a", "r", "e", "n", "t">>
      [] name = "content" -> <<"c", "o", "n", "t", "e", "n", "t">>
      [] name = "has_children" ->
           <<"h", "a", "s", "_", "c", "h", "i", "l", "d", "r", "e", "n">>
      [] name = "options" -> <<"o", "p", "t", "i", "o", "n", "s">>
      [] name = "database_id" -> <<"d", "a", "t", "a", "b", "a", "s", "e", "_", "i", "d">>
      [] name = "page_id" -> <<"p", "a", "g", "e", "_", "i", "d">>
      [] name = "workspace" -> <<"w", "o", "r", "k", "s", "p", "a", "c", "e">>
      [] name = "name" -> <<"n", "a", "m", "e">>
      [] name = "start" -> <<"s", "t", "a", "r", "t">>
      [] name = "text" -> <<"t", "e", "x", "t">>
      [] name = "plain_text" -> <<"p", "l", "a", "i", "n", "_", "t", "e", "x", "t">>

\* A name as a value: the key that is missing reads as None.
NameValue(name) == IF name = "absent" THEN None ELSE Str(Chars(name))

(***************************************************************************)
(* format_search_results.                                                  *)
(***************************************************************************)
\* The length of the date at the head of a timestamp.
DateLen == 10

Timestamp == <<"2", "0", "2", "4", "-", "0", "1", "-", "0", "2", "T", "0", "3">>

\* One search result: a page with its properties or a database with its
\* title; the keys "title" and "properties" may be missing.
Result(object, title, props) ==
    [object |-> object, id |-> Str(<<"i", "d">>), url |-> Str(<<"u">>),
     last_edited_time |-> Str(Timestamp), title |-> title, properties |-> props]

NoKeyValue == [tag |-> "nokey", s |-> <<>>]

\* The title of one result: the if/else and the for/else of the loop body.
TitleOf(result) ==
    IF result.object = "database"
    THEN GetTitleFromRichText(LET t == Field(result, "title", NoKeyValue)
                              IN IF t = NoKeyValue THEN List(<<>>) ELSE t)
    ELSE LET props == Field(result, "properties", <<>>)
             first == IF \E i \in 1..Len(props) : props[i].value.type = "title"
                      THEN CHOOSE i \in 1..Len(props) :
                             /\ props[i].value.type = "title"
                             /\ \A j \in 1..(i - 1) : props[j].value.type # "title"
                      ELSE 0
         IN IF first = 0
            THEN Str(<<"U", "n", "t", "i", "t", "l", "e", "d">>)
            ELSE GetTitleFromProperty(props[first].value)

\* An item that keeps the whole timestamp.
SearchItem_fullTime(result) ==
    [type |-> NameValue(Field(result, "object", "absent")),
     id |-> Field(result, "id", None),
     url |-> Field(result, "url", None),
     last_edited |-> Field(result, "last_edited_time", Str(<<>>)),
     title |-> TitleOf(result)]

\* The item format_search_results builds for one result.
SearchItem(result) ==
    [type |-> NameValue(Field(result, "object", "absent")),
     id |-> Field(result, "id", None),
     url |-> Field(result, "url", None),
     last_edited |->
         LET t == Field(result, "last_edited_time", Str(<<>>)).s
         IN Str(SubSeq(t, 1, IF Len(t) < DateLen THEN Len(t) ELSE DateLen)),
     title |-> TitleOf(result)]

\* The items of the results, in order.
SearchItems(res) == [i \in 1..Len(res) |-> SearchItem(res[i])]

\* format_search_results(results), before the generic rendering:
\* result["object"] raises on a result without the key.
FormatSearchResults(res) ==
    IF \E i \in 1..Len(res) : "object" \notin DOMAIN res[i]
    THEN [raised |-> TRUE, dict |-> <<>>]
    ELSE [raised |-> FALSE, dict |-> SearchItems(res)]

SearchProps ==
    { Prop("title", "title", List(<< ApiRun(Hi), ApiRun(<<"!">>) >>)),
      Prop("title", "title", List(<< ApiRun(<<"B">>) >>)),
      Prop("title", "title", List(<<>>)),
      Prop("title", "absent", None),
      Prop("multi_select", "multi_select", List(<< Option(Hi) >>)),
      Prop("rich_text", "rich_text", List(<< ApiRun(<<"A">>) >>)) }

SearchResults ==
    { Result("page", NoKeyValue, m) : m \in PropMaps(SearchProps, 2) }
    \cup { Result("database", t, <<>>) :
             t \in { NoKeyValue, List(<<>>), List(<< ApiRun(<<"D">>), ApiRun(<<"B">>) >>) } }

\* The most results of one search.
MaxResults == 2

FmtInputs ==
    { [fn |-> "simplify", data |-> m] : m \in PropMaps(ReadProps, MaxMapLen) }
    \cup { [fn |-> "search", data |-> r] : r \in SeqsUpTo(SearchResults, MaxResults) }

\* formatter._simplify_properties(page["properties"])
FmtSimplifyProperties ==
    /\ ppc = "format"
    /\ arg.fn = "simplify"
    /\ out' = SimplifyProperties(arg.data)
    /\ ppc' = "simplified"
    /\ UNCHANGED arg
    /\ UNCHANGED <<pagVars, facVars, cmdVars>>

\* formatter.format_search_results(results)
FmtSearchResults ==
    /\ ppc = "format"
    /\ arg.fn = "search"
    /\ out' = FormatSearchResults(arg.data)
    /\ ppc' = "searched"
    /\ UNCHANGED arg
    /\ UNCHANGED <<pagVars, facVars, cmdVars>>

FmtNext == FmtSimplifyProperties \/ FmtSearchResults

(***************************************************************************)
(* TableFormatter.  A rendered text is a sequence of characters; the three *)
(* characters outside ASCII are written by their code points.  A table is  *)
(* kept as what is handed to the library that draws it (rich's Table when  *)
(* color is on, tabulate when it is off): the header and the rows of       *)
(* cells.                                                                  *)
(***************************************************************************)
CheckMark == "U+2713"

CrossMark == "U+2717"

Bullet == "U+2022"

\* int(value) of a string of digits.
PyInt(n) == [tag |-> "int", n |-> n]

\* {key: value, ...} in insertion order.
Dict(entries) == [tag |-> "dict", items |-> entries]

Entry(name, value) == [name |-> name, value |-> value]

RECURSIVE NatChars(_)
\* str(n) for a natural number n.
NatChars(n) ==
    IF n < 10 THEN << DigitChars[n + 1] >>
    ELSE NatChars(n \div 10) \o << DigitChars[(n % 10) + 1] >>

RECURSIVE Zeros(_)
Zeros(n) == IF n <= 0 THEN <<>> ELSE <<"0">> \o Zeros(n - 1)

RECURSIVE Pow10(_)
Pow10(n) == IF n <= 0 THEN 1 ELSE 10 * Pow10(n - 1)

\* repr(f) of a float in the range Python writes without an exponent;
\* json.dumps writes NaN and Infinity where repr writes nan and inf.
FloatRepr(f, json) ==
    LET sign == IF f.neg THEN <<"-">> ELSE <<>>
    IN CASE f.kind = "nan" ->
              IF json THEN <<"N", "a", "N">> ELSE <<"n", "a", "n">>
         [] f.kind = "inf" ->
              sign \o (IF json THEN <<"I", "n", "f", "i", "n", "i", "t", "y">>
                       ELSE <<"i", "n", "f">>)
         [] f.kind = "finite" /\ f.exp >= 0 ->
              sign \o NatChars(f.num) \o Zeros(f.exp) \o <<".", "0">>
         [] OTHER ->
              LET scale == Pow10(0 - f.exp)
                  frac == NatChars(f.num % scale)
              IN sign \o NatChars(f.num \div scale) \o <<".">>
                      \o Zeros((0 - f.exp) - Len(frac)) \o frac

\* The text json.dumps writes between the quotes of a string.
JsonEscape(s) ==
    LET Esc(c) == CASE c = "\"" -> <<"\\", "\"">>
                    [] c = "\\" -> <<"\\", "\\">>
                    [] c = "\n" -> <<"\\", "n">>
                    [] c = "\t" -> <<"\\", "t">>
                    [] OTHER -> << c >>
        F[i \in 0..Len(s)] == IF i = 0 THEN <<>> ELSE F[i - 1] \o Esc(s[i])
    IN F[Len(s)]

RECURSIVE JsonDumps(_)
RECURSIVE JsonItems(_)
RECURSIVE JsonEntries(_)
\* The elements of a list, separated by ", ".
JsonItems(items) ==
    IF items = <<>> THEN <<>>
    ELSE JsonDumps(Head(items))
         \o (IF Tail(items) = <<>> THEN <<>> ELSE <<",", " ">> \o JsonItems(Tail(items)))

\* The entries of a dict, "key": value, separated by ", ".
JsonEntries(entries) ==
    IF entries = <<>> THEN <<>>
    ELSE <<"\"">> \o JsonEscape(Head(entries).name) \o <<"\"", ":", " ">>
         \o JsonDumps(Head(entries).value)
         \o (IF Tail(entries) = <<>> THEN <<>> ELSE <<",", " ">> \o JsonEntries(Tail(entries)))

\* json.dumps(value, default=str)
JsonDumps(value) ==
    CASE value.tag = "none" -> <<"n", "u", "l", "l">>
      [] value.tag = "bool" ->
           IF value.b THEN <<"t", "r", "u", "e">> ELSE <<"f", "a", "l", "s", "e">>
      [] value.tag = "str" -> <<"\"">> \o JsonEscape(value.s) \o <<"\"">>
      [] value.tag = "float" -> FloatRepr(value, TRUE)
      [] value.tag = "int" -> NatChars(value.n)
      [] value.tag = "list" -> <<"[">> \o JsonItems(value.items) \o <<"]">>
      [] value.tag = "dict" -> <<"{">> \o JsonEntries(value.items) \o <<"}">>

\* TableFormatter._format_value(value).  The conditional expression groups
\* to the right: "✓" if value else ("✗" if self.color else str(value)).
FormatValue(value, color) ==
    CASE value.tag = "none" -> <<>>
      [] value.tag = "bool" ->
           IF value.b THEN << CheckMark >>
           ELSE IF color THEN << CrossMark >>
           ELSE <<"F", "a", "l", "s", "e">>
      [] value.tag \in {"list", "dict"} -> JsonDumps(value)
      [] value.tag = "float" -> FloatRepr(value, FALSE)
      [] value.tag = "int" -> NatChars(value.n)
      [] OTHER -> value.s

\* A returned string.
Text(chars) == [kind |-> "str", text |-> chars]

\* A table handed to rich (color) or tabulate (no color).
TableOut(color, show_header, header, rows) ==
    [kind |-> "table", renderer |-> IF color THEN "rich" ELSE "tabulate",
     show_header |-> show_header, header |-> header, rows |-> rows]

\* dict.get(key, default)
Get(d, key, default) ==
    IF \E i \in 1..Len(d.items) : d.items[i].name = key
    THEN d.items[CHOOSE i \in 1..Len(d.items) : d.items[i].name = key].value
    ELSE default

\* TableFormatter._format_dict(data): one row per key; rich's table is built
\* without a header row, tabulate's with the headers Key and Value.
FormatDict(data, color) ==
    TableOut(color, ~color, << <<"K", "e", "y">>, <<"V", "a", "l", "u", "e">> >>,
             [i \in 1..Len(data.items) |->
                << data.items[i].name, FormatValue(data.items[i].value, color) >>])

AttributeError == [kind |-> "AttributeError", text |-> <<>>]

\* TableFormatter._format_list_of_dicts(data): the columns are the keys of the
\* first item; an item that is not a dict has no get.
FormatListOfDicts(data, color) ==
    LET headers == [i \in 1..Len(data[1].items) |-> data[1].items[i].name]
    IN IF \E r \in 1..Len(data) : data[r].tag # "dict"
       THEN AttributeError
       ELSE TableOut(color, TRUE, headers,
                     [r \in 1..Len(data) |->
                        [c \in 1..Len(headers) |->
                           FormatValue(Get(data[r], headers[c], Str(<<>>)), color)]])

RECURSIVE JoinLines(_)
\* "\n".join(lines)
JoinLines(lines) ==
    IF lines = <<>> THEN <<>>
    ELSE Head(lines) \o (IF Tail(lines) = <<>> THEN <<>> ELSE <<"\n">> \o JoinLines(Tail(lines)))

\* TableFormatter._format_list(data): one bulleted line per item.
FormatList(data, color) ==
    Text(JoinLines([i \in 1..Len(data) |->
                      << IF color THEN Bullet ELSE "-", " " >> \o FormatValue(data[i], color)]))

NoDataToDisplay ==
    <<"N", "o", " ", "d", "a", "t", "a", " ", "t", "o", " ", "d", "i", "s", "p", "l", "a", "y">>

\* str(data) of a scalar: None, True and False are written by name.
PyStr(value) ==
    CASE value.tag = "none" -> <<"N", "o", "n", "e">>
      [] value.tag = "bool" ->
           IF value.b THEN <<"T", "r", "u", "e">> ELSE <<"F", "a", "l", "s", "e">>
      [] value.tag = "float" -> FloatRepr(value, FALSE)
      [] value.tag = "int" -> NatChars(value.n)
      [] OTHER -> value.s

\* A table formatter that answers an empty list with an empty text.
TableFormat_blank(data, color) ==
    CASE data.tag = "dict" -> FormatDict(data, color)
      [] data.tag = "list" ->
           IF data.items = <<>> THEN Text(<<>>)
           ELSE IF data.items[1].tag = "dict" THEN FormatListOfDicts(data.items, color)
           ELSE FormatList(data.items, color)
      [] OTHER -> Text(PyStr(data))

\* TableFormatter.format(data)
TableFormat(data, color) ==
    CASE data.tag = "dict" -> FormatDict(data, color)
      [] data.tag = "list" ->
           IF data.items = <<>> THEN Text(NoDataToDisplay)
           ELSE IF data.items[1].tag = "dict" THEN FormatListOfDicts(data.items, color)
           ELSE FormatList(data.items, color)
      [] OTHER -> Text(PyStr(data))

(***************************************************************************)
(* The data drawn for rendering: scalars, mappings of at most two keys,    *)
(* and sequences of mappings or of scalars.                                *)
(***************************************************************************)
Scalars == { None, Bool(TRUE), Bool(FALSE), Str(Hi), PyInt(42) }

CellValues ==
    { None, Bool(TRUE), Bool(FALSE), Str(Hi),
      List(<< Str(Hi), Bool(TRUE) >>), Dict(<< Entry(<<"k">>, None) >>) }

Rows ==
    { Dict(<<>>) }
    \cup { Dict(<< Entry(<<k>>, v) >>) : k \in {"a", "b"}, v \in CellValues }
    \cup { Dict(<< Entry(<<"a">>, v), Entry(<<"b">>, w) >>) : v, w \in CellValues }

\* The most items of a rendered sequence.
MaxRows == 2

TableData ==
    Scalars \cup Rows
    \cup { List(l) : l \in SeqsUpTo(Rows, MaxRows) }
    \cup { List(l) : l \in SeqsUpTo(Scalars, MaxRows) }
    \cup { List(<< r, v >>) : r \in { Dict(<< Entry(<<"a">>, Bool(TRUE)) >>) }, v \in Scalars }

RECURSIVE PayloadValue(_)
\* The payload of a property as the nested value it is in Python.
PayloadValue(v) ==
    IF "tag" \notin DOMAIN v
    THEN Dict((IF v.plain_text = None THEN <<>>
               ELSE << Entry(Chars("plain_text"), v.plain_text) >>)
              \o << Entry(Chars("type"), Str(Chars("text"))),
                    Entry(Chars("text"), Dict(<< Entry(Chars("content"), v.content) >>)) >>)
    ELSE CASE v.tag = "list" -> List([i \in 1..Len(v.items) |-> PayloadValue(v.items[i])])
           [] v.tag = "option" -> Dict(<< Entry(Chars("name"), v.name) >>)
           [] v.tag = "date" -> Dict(<< Entry(Chars("start"), v.start) >>)
           [] OTHER -> v

\* A property that passed through unsimplified, as the dict it is.
PropAsDict(p) ==
    Dict((IF p.type = "absent" THEN <<>> ELSE << Entry(Chars("type"), Str(Chars(p.type))) >>)
         \o (IF p.key = "absent" THEN <<>> ELSE << Entry(Chars(p.key), PayloadValue(p.val)) >>))

\* A simplified property value as the value that is rendered.
ToValue(v) == IF "tag" \in DOMAIN v THEN v ELSE PropAsDict(v)

\* The simplified map as a dict.
AsDict(entries) ==
    Dict([i \in 1..Len(entries) |-> Entry(entries[i].name, ToValue(entries[i].value))])

\* _simplify_parent(parent): the id is read under "<type>_id", then under
\* "<type>".
SimplifyParent(parent) ==
    LET ptype == Field(parent, "type", "absent")
        idKey == CASE ptype = "database" -> "database_id"
                   [] ptype = "page" -> "page_id"
                   [] OTHER -> "absent"
        first == IF parent.key = idKey /\ idKey # "absent" THEN parent.val ELSE None
        second == IF parent.key = ptype /\ ptype # "absent" THEN parent.val ELSE None
    IN Dict(<< Entry(Chars("type"), NameValue(ptype)),
               Entry(Chars("id"), IF first \in {None, Str(<<>>)} THEN second ELSE first) >>)

\* The entry added when page.get("parent") is a non-empty dict.
ParentEntry(obj) ==
    IF "parent" \in DOMAIN obj /\ obj.parent # None
    THEN << Entry(Chars("parent"), SimplifyParent(obj.parent)) >>
    ELSE <<>>

\* What a simplification hands on: the value to render, or the error raised.
Simplified(value) == [raised |-> "no", value |-> value]

Raised(error) == [raised |-> error, value |-> None]

\* format_page(page), before the generic rendering.
FormatPage(page) ==
    LET props == SimplifyProperties(Field(page, "properties", <<>>))
    IN IF props.raised THEN Raised("TypeError")
       ELSE Simplified(Dict(
              << Entry(Chars("id"), Field(page, "id", None)),
                 Entry(Chars("created_time"), Field(page, "created_time", None)),
                 Entry(Chars("last_edited_time"), Field(page, "last_edited_time", None)),
                 Entry(Chars("archived"), Field(page, "archived", Bool(FALSE))),
                 Entry(Chars("url"), Field(page, "url", None)),
                 Entry(Chars("properties"), AsDict(props.dict)) >>
              \o ParentEntry(page)))

\* The summary of one schema property: its type and id, the option names of
\* a select or multi_select, the database of a relation.
SchemaSummary(prop) ==
    Dict(<< Entry(Chars("type"), NameValue(prop.type)),
            Entry(Chars("id"), Field(prop, "id", None)) >>
         \o (IF prop.type \in {"select", "multi_select"}
             THEN << Entry(Chars("options"),
                           LET options == Field(prop, "options", <<>>)
                           IN List([i \in 1..Len(options) |-> options[i].name])) >>
             ELSE IF prop.type = "relation"
             THEN << Entry(Chars("database_id"), Field(prop, "database_id", None)) >>
             ELSE <<>>))

\* _simplify_database_properties(properties): prop["type"] raises on a
\* property without a type.
SimplifyDatabaseProperties(props) ==
    IF \E i \in 1..Len(props) : props[i].value.type = "absent"
    THEN Raised("KeyError")
    ELSE Simplified(Dict([i \in 1..Len(props) |->
                            Entry(props[i].name, SchemaSummary(props[i].value))]))

\* format_database(database), before the generic rendering.
FormatDatabase(database) ==
    LET props == SimplifyDatabaseProperties(Field(database, "properties", <<>>))
    IN IF props.raised # "no" THEN props
       ELSE Simplified(Dict(
              << Entry(Chars("id"), Field(database, "id", None)),
                 Entry(Chars("title"),
                       GetTitleFromRichText(Field(database, "title", List(<<>>)))),
                 Entry(Chars("created_time"), Field(database, "created_time", None)),
                 Entry(Chars("last_edited_time"), Field(database, "last_edited_time", None)),
                 Entry(Chars("archived"), Field(database, "archived", Bool(FALSE))),
                 Entry(Chars("url"), Field(database, "url", None)),
                 Entry(Chars("properties"), props.value) >>
              \o ParentEntry(database)))

\* _extract_block_content(block): the text of the block, the caption, the
\* code with its language, the URL of a media file, or a placeholder.
ExtractBlockContent(block) ==
    LET block_type == Field(block, "type", "absent")
        block_data == Field(block, "data", [none |-> TRUE])
        typeName == IF block_type = "absent" THEN Chars("None") ELSE Chars(block_type)
    IN IF "rich_text" \in DOMAIN block_data
       THEN GetTextFromRichText(block_data.rich_text)
       ELSE IF "caption" \in DOMAIN block_data
       THEN GetTextFromRichText(block_data.caption)
       ELSE IF block_type = "code"
       THEN Str(<<"[">> \o Field(block_data, "language", <<"p", "l", "a", "i", "n">>)
                \o <<"]", " ">>)
       ELSE IF block_type \in {"image", "video", "file", "pdf"}
       THEN Field(block_data, "url", Str(<<>>))
       ELSE Str(<<"[">> \o typeName \o <<" ", "b", "l", "o", "c", "k", "]">>)

\* format_blocks(blocks), before the generic rendering.
FormatBlocks(blocks) ==
    Simplified(List([i \in 1..Len(blocks) |->
        Dict(<< Entry(Chars("type"), NameValue(Field(blocks[i], "type", "absent"))),
                Entry(Chars("id"), Field(blocks[i], "id", None)),
                Entry(Chars("content"), ExtractBlockContent(blocks[i])) >>
             \o (IF Field(blocks[i], "has_children", Bool(FALSE)) = Bool(TRUE)
                 THEN << Entry(Chars("has_children"), Bool(TRUE)) >>
                 ELSE <<>>))]))

\* The search-result item as the dict it is.
ItemDict(item) ==
    Dict(<< Entry(Chars("type"), item.type), Entry(Chars("id"), item.id),
            Entry(Chars("url"), item.url), Entry(Chars("last_edited"), item.last_edited),
            Entry(Chars("title"), item.title) >>)

\* format_search_results(results) as print_output uses it.
FormatSearchList(res) ==
    LET r == FormatSearchResults(res)
    IN IF r.raised THEN Raised("KeyError")
       ELSE Simplified(List([i \in 1..Len(r.dict) |-> ItemDict(r.dict[i])]))

\* get_formatter(format_type, color): the class is looked up under the
\* lower-cased name, JSONFormatter when the name is unknown.
GetFormatter(format_type) ==
    LET t == Lower(format_type)
    IN CASE t = <<"j", "s", "o", "n">> -> "json"
         [] t = <<"y", "a", "m", "l">> -> "yaml"
         [] t = <<"t", "a", "b", "l", "e">> -> "table"
         [] t = <<"t", "e", "x", "t">> -> "text"
         [] OTHER -> "json"

\* formatter.format(data).  The table variant is rendered in full; the JSON,
\* YAML and text variants are kept as the serialiser and the value it is
\* given, wrapped in a Syntax object when JSON or YAML is colored.
Render(class, data, color) ==
    IF class = "table" THEN TableFormat(data, color)
    ELSE [kind |-> IF color /\ class \in {"json", "yaml"} THEN "syntax" ELSE "str",
          serializer |-> class, data |-> data]

\* isinstance(data, dict)
IsMapping(d) == "tag" \notin DOMAIN d \/ d.tag = "dict"

\* d.get("object")
ObjectTag(d) ==
    IF "tag" \in DOMAIN d THEN Get(d, <<"o", "b", "j", "e", "c", "t">>, None)
    ELSE NameValue(Field(d, "object", "absent"))

\* A dispatch that sends every list to the search-result simplification.
Route_noBlocks(data) ==
    IF IsMapping(data)
    THEN CASE ObjectTag(data) = Str(Chars("page")) -> "page"
           [] ObjectTag(data) = Str(Chars("database")) -> "database"
           [] ObjectTag(data) = Str(Chars("list")) -> "search"
           [] OTHER -> "generic"
    ELSE IF data.tag = "list" /\ data.items # <<>> /\ IsMapping(data.items[1])
            /\ ObjectTag(data.items[1]) # None
    THEN "search"
    ELSE "generic"

\* The branch print_output takes for data.
Route(data) ==
    IF IsMapping(data)
    THEN CASE ObjectTag(data) = Str(Chars("page")) -> "page"
           [] ObjectTag(data) = Str(Chars("database")) -> "database"
           [] ObjectTag(data) = Str(Chars("list")) ->
                LET listed == Field(data, "results", <<>>)
                IN IF listed # <<>> /\ ObjectTag(listed[1]) = Str(Chars("block"))
                   THEN "block" ELSE "search"
           [] OTHER -> "generic"
    ELSE IF data.tag = "list" /\ data.items # <<>> /\ IsMapping(data.items[1])
            /\ ObjectTag(data.items[1]) # None
    THEN "search"
    ELSE "generic"

\* print_output(data, format_type, color): the branch taken, the error the
\* simplification raised if any, and what is printed.
PrintOutput(data, format_type, color) ==
    LET class == GetFormatter(format_type)
        route == Route(data)
        simplified ==
            CASE route = "page" -> FormatPage(data)
              [] route = "database" -> FormatDatabase(data)
              [] route = "block" -> FormatBlocks(data.results)
              [] route = "search" ->
                   FormatSearchList(IF IsMapping(data) THEN Field(data, "results", <<>>)
                                    ELSE data.items)
              [] OTHER -> Simplified(data)
    IN [route |-> route, formatter |-> class, raised |-> simplified.raised,
        simplified |-> simplified.value,
        output |-> IF simplified.raised = "no"
                   THEN Render(class, simplified.value, color)
                   ELSE [kind |-> simplified.raised, text |-> <<>>]]

(***************************************************************************)
(* The data drawn for print_output.                                        *)
(***************************************************************************)
PagesDrawn ==
    { [object |-> "page", id |-> Str(<<"i", "d">>), created_time |-> Str(Timestamp),
       last_edited_time |-> Str(Timestamp), archived |-> Bool(FALSE), url |-> Str(<<"u">>),
       properties |-> m, parent |-> Prop("database_id", "database_id", Str(<<"d", "b">>))] :
        m \in { <<>>,
                << [name |-> KeyName(1),
                    value |-> Prop("title", "title", List(<< ApiRun(Hi) >>))],
                   [name |-> KeyName(2), value |-> Prop("checkbox", "absent", None)] >>,
                << [name |-> KeyName(1), value |-> Prop("formula", "formula", Str(Hi))],
                   [name |-> KeyName(2),
                    value |-> Prop("multi_select", "multi_select",
                                   List(<< Option(Hi) >>))] >> } }
    \cup { [object |-> "page"],
           [object |-> "page", id |-> Str(<<"i", "d">>), parent |-> None,
            properties |-> << [name |-> KeyName(1),
                               value |-> Prop("absent", "absent", None)] >>] }

SchemaDrawn ==
    { [type |-> "select", id |-> Str(<<"s">>), options |-> << Option(Hi) >>],
      [type |-> "multi_select"],
      [type |-> "relation", database_id |-> Str(<<"d", "b">>)],
      [type |-> "number", id |-> Str(<<"n">>)],
      [type |-> "absent", id |-> Str(<<"x">>)] }

DatabasesDrawn ==
    { [object |-> "database", id |-> Str(<<"d", "b">>),
       title |-> List(<< ApiRun(<<"D">>) >>), properties |-> m,
       parent |-> Prop("page", "page_id", Str(<<"p">>))] :
        m \in PropMaps(SchemaDrawn, 2) }
    \cup { [object |-> "database"] }

BlocksDrawn ==
    { [object |-> "block", type |-> "paragraph", id |-> Str(<<"b">>),
       has_children |-> Bool(TRUE), data |-> [rich_text |-> List(<< ApiRun(Hi) >>)]],
      [object |-> "block", type |-> "image", id |-> Str(<<"b">>),
       has_children |-> Bool(FALSE), data |-> [url |-> Str(<<"u">>)]],
      [object |-> "block", type |-> "code", data |-> [language |-> <<"p", "y">>]],
      [object |-> "block", type |-> "divider", id |-> Str(<<"b">>)],
      [object |-> "block"] }

\* A record of a list that has lost its object tag.
Untagged == [id |-> Str(<<"i", "d">>)]

ListItems == PagesDrawn \cup BlocksDrawn \cup { Untagged, [object |-> "user", id |-> Str(<<"u">>)] }

ListsDrawn ==
    { [object |-> "list", results |-> r] : r \in SeqsUpTo(ListItems, MaxResults) }
    \cup { [object |-> "list"] }

PrintData ==
    PagesDrawn \cup DatabasesDrawn \cup ListsDrawn
    \cup { List(r) : r \in { s \in SeqsUpTo(ListItems, MaxResults) :
                                 s = <<>> \/ "object" \in DOMAIN s[1] } }
    \cup { List(<< d >>) : d \in Rows }
    \cup { List(<< v >>) : v \in Scalars }
    \cup { Dict(<< Entry(<<"o", "b", "j", "e", "c", "t">>, Str(Chars("user"))),
                   Entry(Chars("name"), Str(Hi)) >>),
           Dict(<< Entry(Chars("name"), Str(Hi)) >>) }
    \cup Scalars

FormatTypes ==
    { <<"t", "a", "b", "l", "e">>, <<"T", "a", "b", "l", "e">>, <<"j", "s", "o", "n">>,
      <<"y", "a", "m", "l">>, <<"t", "e", "x", "t">>, <<"c", "s", "v">> }

PrintInputs ==
    { [fn |-> "print_output", data |-> d, format_type |-> t, color |-> c] :
        d \in PrintData, t \in FormatTypes, c \in BOOLEAN }

\* print_output(data, format_type, color)
OutPrintOutput ==
    /\ ppc = "render"
    /\ arg.fn = "print_output"
    /\ out' = PrintOutput(arg.data, arg.format_type, arg.color)
    /\ ppc' = "printed"
    /\ UNCHANGED arg
    /\ UNCHANGED <<pagVars, facVars, cmdVars>>

OutInputs ==
    { [fn |-> "format", data |-> d, color |-> c] : d \in TableData, c \in BOOLEAN }
    \cup PrintInputs

\* TableFormatter(color).format(data)
OutFormat ==
    /\ ppc = "render"
    /\ arg.fn = "format"
    /\ out' = TableFormat(arg.data, arg.color)
    /\ ppc' = "rendered"
    /\ UNCHANGED arg
    /\ UNCHANGED <<pagVars, facVars, cmdVars>>

OutNext == OutFormat \/ OutPrintOutput

(***************************************************************************)
(* The two directions of the property codec, one after the other.  Between *)
(* them stands the remote service, which returns a written property under  *)
(* its declared type, every text run carrying its content as plain_text.   *)
(***************************************************************************)
WriteTypes == {"title", "rich_text", "number", "checkbox", "select",
               "multi_select", "date", "url", "email", "phone_number"}

\* The property the service returns for a written payload.
Stored(prop_type, payload) ==
    Prop(prop_type, payload.key,
         IF prop_type \in {"title", "rich_text"}
         THEN List([i \in 1..Len(payload.val.items) |->
                      [type |-> "text", plain_text |-> payload.val.items[i].content,
                       content |-> payload.val.items[i].content]])
         ELSE payload.val)

\* The display value of what the encoder wrote for the value.
EncodeThenSimplify(prop_type, value) ==
    LET encoded == EncodeProperty(prop_type, value)
    IN IF encoded.outcome = "set"
       THEN [outcome |-> "set", prop |-> encoded.prop,
             shown |-> SimplifyProperty(Stored(prop_type, encoded.prop))]
       ELSE [outcome |-> encoded.outcome, prop |-> None, shown |-> None]

\* The properties read back: for each written variant a value that is set
\* and the forms in which it is unset.
StoredProps ==
    { Prop("title", "title", List(<< ApiRun(<<"A">>), ApiRun(<<"B">>) >>)),
      Prop("title", "title", List(<<>>)),
      Prop("rich_text", "rich_text", List(<< ApiRun(<<"A", " ">>) >>)),
      Prop("rich_text", "absent", None),
      Prop("number", "number", PyFloat(<<"4", "2">>)),
      Prop("number", "number", None),
      Prop("checkbox", "checkbox", Bool(TRUE)),
      Prop("checkbox", "checkbox", Bool(FALSE)),
      Prop("checkbox", "absent", None),
      Prop("select", "select", Option(<<"A">>)),
      Prop("select", "select", None),
      Prop("multi_select", "multi_select", List(<< Option(<<"A">>), Option(<<"B">>) >>)),
      Prop("multi_select", "multi_select", List(<<>>)),
      Prop("date", "date", DateValue(<<"2", "4">>)),
      Prop("date", "date", None),
      Prop("url", "url", Str(<<"A">>)),
      Prop("url", "url", None),
      Prop("email", "email", Str(<<"A">>)),
      Prop("email", "absent", None),
      Prop("phone_number", "phone_number", Str(<<"4", "2">>)),
      Prop("phone_number", "phone_number", None) }

TripInputs ==
    { [dir |-> "write", prop_type |-> t, value |-> v] : t \in WriteTypes, v \in CodecValues }
    \cup { [dir |-> "read", prop_type |-> p.type, stored |-> p] : p \in StoredProps }

\* encode, then simplify what the service returns.
TripWriteRead ==
    /\ ppc = "trip"
    /\ arg.dir = "write"
    /\ out' = EncodeThenSimplify(arg.prop_type, arg.value)
    /\ ppc' = "written"
    /\ UNCHANGED arg
    /\ UNCHANGED <<pagVars, facVars, cmdVars>>

\* simplify a property read from the service.
TripRead ==
    /\ ppc = "trip"
    /\ arg.dir = "read"
    /\ out' = [outcome |-> "shown", prop |-> arg.stored,
               shown |-> SimplifyProperty(arg.stored)]
    /\ ppc' = "read"
    /\ UNCHANGED arg
    /\ UNCHANGED <<pagVars, facVars, cmdVars>>

TripNext == TripWriteRead \/ TripRead

(***************************************************************************)
(* The command `page create --title T --parent ID --property name=value`.  *)
(* It never reads a schema: every property is encoded by the shape of its  *)
(* value.                                                                  *)
(***************************************************************************)
\* value.isdigit()
IsDigitStr(value) == value # <<>> /\ \A i \in 1..Len(value) : IsDigit(value[i])

\* The inference of page create: true/false is a checkbox, digits are an
\* integer, anything else is rich text.
InferProperty(value) ==
    IF Lower(value) \in { <<"t", "r", "u", "e">>, <<"f", "a", "l", "s", "e">> }
    THEN Prop("absent", "checkbox", Bool(Lower(value) = <<"t", "r", "u", "e">>))
    ELSE IF IsDigitStr(value)
    THEN Prop("absent", "number", PyInt(DigitsValue(value, 0)))
    ELSE Prop("absent", "rich_text", List(<< TextRun(value) >>))

PgNames == { <<"C", "o", "u", "n", "t">>, <<"T", "a", "g", "s">>, <<"G", "h", "o", "s", "t">> }

PgValues == { <<"4", "2">>, <<"a", "b", "c">>, <<"T", "r", "u", "e">>, <<>> }

PgProps == { n \o <<"=">> \o v : n \in PgNames, v \in PgValues }
           \cup { <<"C", "o", "u", "n", "t">> }

\* The options of one invocation: the title, and whether content (blank or
\* not), icon and cover are given.
PgOptions ==
    [title : { <<"T">> }, content : {"None", "blank", "given"},
     icon : {"None", "given"}, cover : {"None", "given"}]

\* client = NotionClient(config.api_key), then the title property.
PgConnect ==
    /\ cpc = "page_start"
    /\ remote' = Append(remote, RemoteCall("search", None))
    /\ \E ok \in BOOLEAN :
         IF ok
         THEN /\ cpc' = "page_loop"
              /\ page_properties' =
                     << [name |-> <<"t", "i", "t", "l", "e">>,
                         value |-> Prop("absent", "title", List(<< TextRun(arg.title) >>))] >>
              /\ UNCHANGED <<echoed, exit_code>>
         ELSE /\ CmdFail([msg |-> "ConnectionError", name |-> <<>>])
              /\ UNCHANGED page_properties
    /\ UNCHANGED <<database_id, properties, db_properties, prop_index>>
    /\ UNCHANGED <<pagVars, facVars, pureVars>>

\* One iteration of `for prop in properties`.
PgProperty ==
    /\ cpc = "page_loop"
    /\ prop_index <= Len(properties)
    /\ LET prop == properties[prop_index]
           eq == Find(prop, {"="})
           name == SubSeq(prop, 1, eq - 1)
           value == SubSeq(prop, eq + 1, Len(prop))
       IN IF eq = 0
          THEN /\ CmdFail([msg |-> "Error: Invalid property format", name |-> prop])
               /\ UNCHANGED page_properties
          ELSE /\ page_properties' = DictSet(page_properties, name, InferProperty(value))
               /\ UNCHANGED <<echoed, exit_code, cpc>>
    /\ prop_index' = prop_index + 1
    /\ UNCHANGED <<database_id, properties, db_properties, remote>>
    /\ UNCHANGED <<pagVars, facVars, pureVars>>

\* The children, icon and cover are built, client.create_page is called and
\* the page is printed.  Content without a paragraph gives no children.
PgCreatePage ==
    /\ cpc = "page_loop"
    /\ prop_index > Len(properties)
    /\ remote' = Append(remote,
                   RemoteCall("pages.create",
                              CreateParams(ParentStr(database_id), page_properties,
                                           IF arg.content = "given" THEN "given" ELSE "None",
                                           arg.icon, arg.cover)))
    /\ \E ok \in BOOLEAN :
         IF ok
         THEN /\ cpc' = "done"
              /\ exit_code' = 0
              /\ UNCHANGED echoed
         ELSE CmdFail([msg |-> "APIResponseError", name |-> <<>>])
    /\ UNCHANGED <<database_id, properties, db_properties, prop_index,
                   page_properties>>
    /\ UNCHANGED <<pagVars, facVars, pureVars>>

PgNext == PgConnect \/ PgProperty \/ PgCreatePage

(***************************************************************************)
(* Config: the configuration file, the environment and the defaults.       *)
(* The file is a YAML mapping of keys to scalars; a scalar is written      *)
(* plain or in single quotes and a plain scalar is read back through the   *)
(* implicit resolvers of YAML 1.1.                                         *)
(***************************************************************************)
KeyApiKey == <<"a", "p", "i", "_", "k", "e", "y">>

KeyDefaultDatabase ==
    <<"d", "e", "f", "a", "u", "l", "t", "_", "d", "a", "t", "a", "b", "a", "s", "e">>

KeyOutputFormat == <<"o", "u", "t", "p", "u", "t", "_", "f", "o", "r", "m", "a", "t">>

KeyColorOutput == <<"c", "o", "l", "o", "r", "_", "o", "u", "t", "p", "u", "t">>

KeyPageSize == <<"p", "a", "g", "e", "_", "s", "i", "z", "e">>

KeyCustomValue == <<"c", "u", "s", "t", "o", "m", "_", "v", "a", "l", "u", "e">>

\* env_mapping, in the order of its items: the key each variable overrides.
EnvMapping ==
    << KeyApiKey, KeyDefaultDatabase, KeyOutputFormat, KeyColorOutput, KeyPageSize >>

\* defaults, in the order of its items.
Defaults ==
    << Entry(KeyOutputFormat, Str(<<"j", "s", "o", "n">>)),
       Entry(KeyColorOutput, Bool(TRUE)),
       Entry(KeyPageSize, PyInt(100)) >>

\* The strings that parse as true: value.lower() in ["true", "1", "yes"].
ColorWords == { <<"t", "r", "u", "e">>, <<"1">>, <<"y", "e", "s">> }

\* int(value): surrounding whitespace, an optional sign, digits with single
\* underscores between them.
PyIntParse(value) ==
    LET t == Strip(value)
        signed == t # <<>> /\ Head(t) \in {"+", "-"}
        body == IF signed THEN Tail(t) ELSE t
        wellFormed ==
            /\ body # <<>>
            /\ \A i \in 1..Len(body) : IsDigit(body[i]) \/ body[i] = "_"
            /\ IsDigit(body[1]) /\ IsDigit(body[Len(body)])
            /\ \A i \in 1..(Len(body) - 1) : ~(body[i] = "_" /\ body[i + 1] = "_")
    IN IF wellFormed
       THEN [ok |-> TRUE,
             n |-> IF signed /\ Head(t) = "-"
                   THEN 0 - DigitsValue(body, 0) ELSE DigitsValue(body, 0)]
       ELSE [ok |-> FALSE, n |-> 0]

\* The plain scalars the bool resolver matches.
YamlBools ==
    { <<"y", "e", "s">>, <<"Y", "e", "s">>, <<"Y", "E", "S">>,
      <<"n", "o">>, <<"N", "o">>, <<"N", "O">>,
      <<"t", "r", "u", "e">>, <<"T", "r", "u", "e">>, <<"T", "R", "U", "E">>,
      <<"f", "a", "l", "s", "e">>, <<"F", "a", "l", "s", "e">>,
      <<"F", "A", "L", "S", "E">>,
      <<"o", "n">>, <<"O", "n">>, <<"O", "N">>,
      <<"o", "f", "f">>, <<"O", "f", "f">>, <<"O", "F", "F">> }

\* The plain scalars the null resolver matches.
YamlNulls == { <<"~">>, <<"n", "u", "l", "l">>, <<"N", "u", "l", "l">>,
               <<"N", "U", "L", "L">>, <<>> }

\* The body of a plain scalar after its optional sign.
Unsigned(text) == IF text # <<>> /\ Head(text) \in {"+", "-"} THEN Tail(text) ELSE text

\* The int resolver, decimal and octal forms: [-+]?0[0-7_]+ and
\* [-+]?(0|[1-9][0-9_]*).
YamlIntLike(text) ==
    LET body == Unsigned(text)
    IN /\ body # <<>>
       /\ IsDigit(body[1])
       /\ \A i \in 1..Len(body) : IsDigit(body[i]) \/ body[i] = "_"
       /\ body[1] = "0" =>
              \A i \in 1..Len(body) : body[i] \in {"0", "1", "2", "3", "4", "5", "6", "7", "_"}

\* The float resolver, the form [-+]?[0-9][0-9_]*\.[0-9_]*.
YamlFloatLike(text) ==
    LET body == Unsigned(text)
        dot == Find(body, {"."})
    IN /\ dot > 1
       /\ IsDigit(body[1])
       /\ \A i \in 1..Len(body) : i # dot => (IsDigit(body[i]) \/ body[i] = "_")

\* The tag the implicit resolvers give a plain scalar.
YamlResolve(text) ==
    IF text \in YamlBools THEN "bool"
    ELSE IF text \in YamlNulls THEN "null"
    ELSE IF YamlIntLike(text) THEN "int"
    ELSE IF YamlFloatLike(text) THEN "float"
    ELSE "str"

RECURSIVE OctalValue(_, _)
OctalValue(d, acc) ==
    IF d = <<>> THEN acc
    ELSE IF Head(d) = "_" THEN OctalValue(Tail(d), acc)
    ELSE OctalValue(Tail(d), 8 * acc + DigitVal(Head(d)))

\* construct_yaml_int for the forms of YamlIntLike.
YamlInt(text) ==
    LET body == Unsigned(text)
        magnitude == IF body[1] = "0" THEN OctalValue(body, 0) ELSE DigitsValue(body, 0)
    IN IF Head(text) = "-" THEN 0 - magnitude ELSE magnitude

\* The characters that keep a str from being written plain: the emitter
\* quotes a str that starts or ends with a space or starts with an indicator.
PlainAllowed(text) ==
    /\ text # <<>>
    /\ ~IsSpace(text[1]) /\ ~IsSpace(text[Len(text)])
    /\ text[1] \notin {"#", ",", "[", "]", "{", "}", "&", "*", "!", "|", ">",
                       "%", "@"}

\* Decimal digits of an int, with its sign.
IntText(n) == IF n < 0 THEN <<"-">> \o NatChars(0 - n) ELSE NatChars(n)

\* yaml.dump of a scalar, every str written plain; a str that reads as
\* another type is then read back as that type.
YamlDump_plain(value) ==
    CASE value.tag = "str" -> [style |-> "plain", text |-> value.s]
      [] value.tag = "bool" ->
            [style |-> "plain",
             text |-> IF value.b THEN <<"t", "r", "u", "e">>
                      ELSE <<"f", "a", "l", "s", "e">>]
      [] value.tag = "int" -> [style |-> "plain", text |-> IntText(value.n)]
      [] value.tag = "none" -> [style |-> "plain", text |-> <<"n", "u", "l", "l">>]

\* yaml.dump of a scalar: a str is plain only when the resolvers read the
\* plain text back as a str.
YamlDump(value) ==
    CASE value.tag = "str" ->
            IF YamlResolve(value.s) = "str" /\ PlainAllowed(value.s)
            THEN [style |-> "plain", text |-> value.s]
            ELSE [style |-> "single", text |-> value.s]
      [] value.tag = "bool" ->
            [style |-> "plain",
             text |-> IF value.b THEN <<"t", "r", "u", "e">>
                      ELSE <<"f", "a", "l", "s", "e">>]
      [] value.tag = "int" -> [style |-> "plain", text |-> IntText(value.n)]
      [] value.tag = "none" -> [style |-> "plain", text |-> <<"n", "u", "l", "l">>]

\* yaml.safe_load of a scalar.
YamlLoad(token) ==
    IF token.style = "single" THEN Str(token.text)
    ELSE LET tag == YamlResolve(token.text)
         IN CASE tag = "bool" ->
                    Bool(Lower(token.text) \in { <<"y", "e", "s">>, <<"t", "r", "u", "e">>,
                                                 <<"o", "n">> })
              [] tag = "null" -> None
              [] tag = "int" -> PyInt(YamlInt(token.text))
              [] tag = "float" -> [tag |-> "float", s |-> token.text]
              [] tag = "str" -> Str(token.text)

\* The order of the characters of a key.
KeyChars == << "_" >> \o Lowers

Ord(c) == CHOOSE i \in DOMAIN KeyChars : KeyChars[i] = c

RECURSIVE KeyBefore(_, _)
\* a < b for two keys.
KeyBefore(a, b) ==
    IF b = <<>> THEN FALSE
    ELSE IF a = <<>> THEN TRUE
    ELSE IF Head(a) # Head(b) THEN Ord(Head(a)) < Ord(Head(b))
    ELSE KeyBefore(Tail(a), Tail(b))

RECURSIVE SortByKey(_)
\* yaml.dump sorts the keys of a mapping.
SortByKey(entries) ==
    IF entries = <<>> THEN <<>>
    ELSE LET first == CHOOSE i \in 1..Len(entries) :
                          \A j \in 1..Len(entries) :
                              j # i => KeyBefore(entries[i].name, entries[j].name)
         IN << entries[first] >>
            \o SortByKey([k \in 1..(Len(entries) - 1) |->
                             IF k < first THEN entries[k] ELSE entries[k + 1]])

\* The document yaml.dump(self._config) writes.
DumpConfig(config) ==
    LET sorted == SortByKey(config.items)
    IN [i \in 1..Len(sorted) |-> Entry(sorted[i].name, YamlDump(sorted[i].value))]

\* A path without a file.
NoFile == [exists |-> FALSE, doc |-> <<>>]

\* yaml.safe_load(f) or {} when the path exists, {} when it does not.
FromFile(file) ==
    IF file.exists
    THEN [i \in 1..Len(file.doc) |-> Entry(file.doc[i].name, YamlLoad(file.doc[i].value))]
    ELSE <<>>

\* os.getenv of the variable that overrides the key.
GetEnv(env, key) == env[key]

\* `if value`, taken as `if value is not None`: a variable set to "" overrides.
EnvGiven_set(value) == value.tag = "str"

\* `if value` of the loop over env_mapping: an unset and an empty variable
\* are both skipped.
EnvGiven(value) == StrTruthy(value)

RECURSIVE OverrideWithEnv(_, _, _)
\* The loop over env_mapping from its i-th item on.
OverrideWithEnv(items, env, i) ==
    IF i > Len(EnvMapping) THEN items
    ELSE LET config_key == EnvMapping[i]
             value == GetEnv(env, config_key)
         IN IF EnvGiven(value)
            THEN IF config_key = KeyColorOutput
                 THEN OverrideWithEnv(
                          DictSet(items, config_key, Bool(Lower(value.s) \in ColorWords)),
                          env, i + 1)
                 ELSE IF config_key = KeyPageSize
                 THEN IF PyIntParse(value.s).ok
                      THEN OverrideWithEnv(
                               DictSet(items, config_key, PyInt(PyIntParse(value.s).n)),
                               env, i + 1)
                      ELSE OverrideWithEnv(items, env, i + 1)
                 ELSE OverrideWithEnv(DictSet(items, config_key, value), env, i + 1)
            ELSE OverrideWithEnv(items, env, i + 1)

RECURSIVE SetDefaults(_, _)
\* The loop over defaults from its i-th item on.
SetDefaults(items, i) ==
    IF i > Len(Defaults) THEN items
    ELSE IF DictHas(items, Defaults[i].name)
    THEN SetDefaults(items, i + 1)
    ELSE SetDefaults(Append(items, Defaults[i]), i + 1)

\* Config._load_config()
LoadConfig(file, env) == Dict(SetDefaults(OverrideWithEnv(FromFile(file), env, 1), 1))

\* Config.get(key): None is the default of get.
ConfigGet(config, key) == Get(config, key, None)

\* The environments drawn: each variable unset (None), empty or set.
Environments ==
    { [k \in { EnvMapping[i] : i \in DOMAIN EnvMapping } |->
          IF k = KeyApiKey THEN a
          ELSE IF k = KeyOutputFormat THEN o
          ELSE IF k = KeyColorOutput THEN c
          ELSE IF k = KeyPageSize THEN p
          ELSE None] :
      a \in { None, Str(<<>>), Str(<<"k">>) },
      o \in { None, Str(<<"y", "a", "m", "l">>) },
      c \in { None, Str(<<>>), Str(<<"Y", "E", "S">>), Str(<<"1">>), Str(<<"n", "o">>) },
      p \in { None, Str(<<"5", "0">>), Str(<<"a", "b", "c">>), Str(<<" ", "7">>),
              Str(<<"-", "3">>), Str(<<"1", ".", "5">>) } }

\* The entries a drawn file may hold.
FileEntries ==
    << Entry(KeyApiKey, YamlDump(Str(<<"f">>))),
       Entry(KeyColorOutput, YamlDump(Bool(FALSE))),
       Entry(KeyOutputFormat, YamlDump(Str(<<"t", "a", "b", "l", "e">>))),
       Entry(KeyPageSize, YamlDump(PyInt(25))) >>

RECURSIVE Keep(_, _)
\* The entries of s whose index is in `chosen`, in order.
Keep(s, chosen) ==
    IF s = <<>> THEN <<>>
    ELSE LET rest == Keep(SubSeq(s, 1, Len(s) - 1), chosen)
         IN IF Len(s) \in chosen THEN Append(rest, s[Len(s)]) ELSE rest

\* The files drawn: no file, and a file with any of the entries.
Files ==
    { NoFile } \cup
    { [exists |-> TRUE, doc |-> Keep(FileEntries, chosen)] :
          chosen \in SUBSET DOMAIN FileEntries }

\* Config(config_path)
CfgLoad ==
    /\ ppc = "cfg_start"
    /\ out' = [config |-> LoadConfig(arg.file, arg.env), file |-> arg.file,
               calls |-> <<>>, reloaded |-> None]
    /\ ppc' = "cfg_loaded"
    /\ UNCHANGED arg
    /\ UNCHANGED <<pagVars, facVars, cmdVars>>

CfgNext == CfgLoad

MaxSets == 2

SetKeys == { KeyApiKey, KeyPageSize, KeyCustomValue }

SetValues ==
    { Str(<<"t", "e", "s", "t">>), Str(<<"t", "r", "u", "e">>), Str(<<>>),
      Str(<<"0", "1", "0">>), PyInt(7), Bool(FALSE), None }

\* Config.set(key, value)
CfgSet ==
    /\ ppc \in {"cfg_loaded", "cfg_saved"}
    /\ Len(out.calls) < MaxSets
    /\ \E key \in SetKeys, value \in SetValues :
         out' = [out EXCEPT !.config = Dict(DictSet(out.config.items, key, value)),
                            !.calls = Append(out.calls, Entry(key, value))]
    /\ ppc' = "cfg_loaded"
    /\ UNCHANGED arg
    /\ UNCHANGED <<pagVars, facVars, cmdVars>>

\* Config.save()
CfgSave ==
    /\ ppc = "cfg_loaded"
    /\ out' = [out EXCEPT !.file = [exists |-> TRUE, doc |-> DumpConfig(out.config)]]
    /\ ppc' = "cfg_saved"
    /\ UNCHANGED arg
    /\ UNCHANGED <<pagVars, facVars, cmdVars>>

\* A new Config(config_path) of the same path, in the same environment.
CfgReload ==
    /\ ppc = "cfg_saved"
    /\ out' = [out EXCEPT !.reloaded = LoadConfig(out.file, arg.env)]
    /\ ppc' = "cfg_reloaded"
    /\ UNCHANGED arg
    /\ UNCHANGED <<pagVars, facVars, cmdVars>>

SaveNext == CfgLoad \/ CfgSet \/ CfgSave \/ CfgReload

\* The environments of the save/load runs.
SaveEnvironments ==
    { env \in Environments :
          /\ env[KeyOutputFormat] = None /\ env[KeyColorOutput] = None
          /\ env[KeyApiKey] = None
          /\ env[KeyPageSize] \in { None, Str(<<"5", "0">>), Str(<<"a", "b", "c">>) } }

SaveFiles == { NoFile, [exists |-> TRUE, doc |-> FileEntries] }

(***************************************************************************)
(* The bulk commands create-pages, update-pages and delete-pages.  An item *)
(* of the loaded file is a mapping with the fields id, title and archived  *)
(* ("absent" when the mapping lacks the field), or a bare string.          *)
(***************************************************************************)
MaxItems == 2

\* A bare string in a JSON array.
StrItem == [kind |-> "str", id |-> "s1", title |-> "absent", archived |-> "absent"]

DictItem(id, title, archived) ==
    [kind |-> "dict", id |-> id, title |-> title, archived |-> archived]

BulkItems ==
    { StrItem,
      DictItem("absent", "T", "absent"), DictItem("", "T", "absent"),
      DictItem("p1", "T", "absent"), DictItem("p2", "absent", "absent"),
      DictItem("p1", "absent", "true"), DictItem("p2", "T", "true") }

\* item.get(field) is truthy.
FieldTruthy(value) == value \notin {"absent", ""}

BulkCommands == {"create-pages", "update-pages", "delete-pages"}

\* One invocation: the command, the items of the file and the flags; --force
\* is an option of delete-pages only.
BulkInputs ==
    { r \in [command : BulkCommands, data : SeqsUpTo(BulkItems, MaxItems),
             dry_run : BOOLEAN, force : BOOLEAN] :
          r.force => r.command = "delete-pages" }

\* What follows the loading: the preview of --dry-run, the loop, or the
\* confirmation prompt; the flags are looked at in the other order.
AfterLoad_forceFirst(dry_run, force) ==
    IF force THEN "bulk_loop" ELSE IF dry_run THEN "preview" ELSE "bulk_confirm"

\* What follows the loading: the preview of --dry-run, the loop, or the
\* confirmation prompt.
AfterLoad(dry_run, force) ==
    IF dry_run THEN "preview" ELSE IF force THEN "bulk_loop" ELSE "bulk_confirm"

\* The validation of update-pages, an empty id taken for an id.
ItemsWithoutId_absentOnly(data) ==
    IF \E i \in 1..Len(data) : data[i].kind = "str"
    THEN [raised |-> TRUE, count |-> 0]
    ELSE [raised |-> FALSE,
          count |-> Cardinality({ i \in 1..Len(data) : data[i].id = "absent" })]

\* [item for item in data if not item.get(id_field)], counted; item.get of
\* a bare string raises.
ItemsWithoutId(data) ==
    IF \E i \in 1..Len(data) : data[i].kind = "str"
    THEN [raised |-> TRUE, count |-> 0]
    ELSE [raised |-> FALSE,
          count |-> Cardinality({ i \in 1..Len(data) : ~FieldTruthy(data[i].id) })]

RECURSIVE PageIds(_, _)
\* The loop that extracts page_ids in delete-pages, from the i-th item on:
\* a bare string is an id, a mapping gives its non-empty id, the rest is
\* skipped.  Each id is kept with the index of its item.
PageIds(data, i) ==
    IF i > Len(data) THEN <<>>
    ELSE IF data[i].kind = "str" \/ FieldTruthy(data[i].id)
    THEN << [index |-> i, id |-> data[i].id] >> \o PageIds(data, i + 1)
    ELSE PageIds(data, i + 1)

\* The list the loop of the command goes through.
WorkOf(command, data) ==
    IF command = "delete-pages" THEN PageIds(data, 1)
    ELSE [i \in 1..Len(data) |-> [index |-> i, id |-> data[i].id]]

\* The state of a run before the command has loaded its file.
BulkIdle ==
    [work |-> <<>>, idx |-> 1, attempted |-> <<>>, succeeded |-> <<>>, failed |-> <<>>,
     calls |-> <<>>, answer |-> "unasked", exit |-> -1, message |-> "", missing |-> 0]

\* The run ends with a ClickException: exit code 1 and its message.
BulkFail(message) == [BulkIdle EXCEPT !.exit = 1, !.message = message]

\* The command loads the file, validates it and either previews it
\* (--dry-run), fails, or goes on to the prompt or the loop.
BulkStart ==
    /\ ppc = "bulk_start"
    /\ LET data == arg.data
           step == AfterLoad(arg.dry_run, arg.force)
           missing == ItemsWithoutId(data)
           work == WorkOf(arg.command, data)
           ready == [BulkIdle EXCEPT !.work = work]
       IN IF data = <<>>
          THEN out' = BulkFail("No data found in file") /\ ppc' = "bulk_done"
          ELSE IF arg.command = "update-pages" /\ missing.raised
          THEN out' = BulkFail("AttributeError") /\ ppc' = "bulk_done"
          ELSE IF arg.command = "update-pages" /\ missing.count > 0
          THEN /\ out' = [BulkFail("items missing id field") EXCEPT !.missing = missing.count]
               /\ ppc' = "bulk_done"
          ELSE IF arg.command = "delete-pages" /\ work = <<>>
          THEN out' = BulkFail("No valid page IDs found") /\ ppc' = "bulk_done"
          ELSE IF step = "preview"
          THEN /\ out' = IF arg.command = "create-pages"
                            /\ \E i \in 1..Len(data) : data[i].kind = "str"
                         THEN BulkFail("AttributeError")
                         ELSE [ready EXCEPT !.exit = 0, !.message = "DRY RUN MODE"]
               /\ ppc' = "bulk_done"
          ELSE out' = ready /\ ppc' = step
    /\ UNCHANGED arg
    /\ UNCHANGED <<pagVars, facVars, cmdVars>>

\* Confirm.ask: the operator answers yes or no.
BulkConfirm ==
    /\ ppc = "bulk_confirm"
    /\ \E yes \in BOOLEAN :
         IF yes
         THEN out' = [out EXCEPT !.answer = "yes"] /\ ppc' = "bulk_loop"
         ELSE /\ out' = [out EXCEPT !.answer = "no", !.exit = 0,
                                    !.message = "Operation cancelled"]
              /\ ppc' = "bulk_done"
    /\ UNCHANGED arg
    /\ UNCHANGED <<pagVars, facVars, cmdVars>>

\* The index of the next iteration; an iteration that failed ends the loop.
NextIndex_abort(idx, failure, n) == IF failure THEN n + 1 ELSE idx + 1

\* The index of the next iteration: the except clause of the loop body
\* swallows the failure of an item.
NextIndex(idx, failure, n) == idx + 1

\* What one iteration does with its item.  `built` is whether the factories
\* return, `ok` whether the remote service accepts the request.  The result
\* tells whether the client was called and in which list the item ends up.
\* create-pages hands the page to create_page as its only argument, which
\* lacks the required `properties` and raises TypeError.
Iteration(command, item, built, ok) ==
    CASE command = "create-pages" ->
            IF item.kind = "str" \/ ~built
            THEN [call |-> "none", list |-> "failed"]
            ELSE [call |-> "create_page", list |-> "failed"]
      [] command = "update-pages" ->
            IF FieldTruthy(item.title)
            THEN IF ~built THEN [call |-> "none", list |-> "failed"]
                 ELSE [call |-> "update_page",
                       list |-> IF ok THEN "succeeded" ELSE "failed"]
            ELSE [call |-> "none", list |-> "none"]
      [] command = "delete-pages" ->
            [call |-> "update_page", list |-> IF ok THEN "succeeded" ELSE "failed"]

\* One iteration of the loop over the items.
BulkItem ==
    /\ ppc = "bulk_loop"
    /\ out.idx <= Len(out.work)
    /\ \E built \in BOOLEAN, ok \in BOOLEAN :
         LET w == out.work[out.idx]
             done == Iteration(arg.command, arg.data[w.index], built, ok)
         IN out' = [out EXCEPT
                      !.attempted = Append(@, w.index),
                      !.calls = IF done.call = "none" THEN @
                                ELSE Append(@, [op |-> done.call, id |-> w.id]),
                      !.succeeded = IF done.list = "succeeded" THEN Append(@, w.index) ELSE @,
                      !.failed = IF done.list = "failed" THEN Append(@, w.index) ELSE @,
                      !.idx = NextIndex(out.idx, done.list = "failed", Len(out.work))]
    /\ UNCHANGED <<arg, ppc>>
    /\ UNCHANGED <<pagVars, facVars, cmdVars>>

\* The results are shown.  create-pages reads failed['item'].get of the
\* failed items it lists, which raises for a bare string.
BulkFinish ==
    /\ ppc = "bulk_loop"
    /\ out.idx > Len(out.work)
    /\ out' = [out EXCEPT
                 !.exit = IF arg.command = "create-pages"
                             /\ \E k \in 1..Len(out.failed) :
                                    arg.data[out.failed[k]].kind = "str"
                          THEN 1 ELSE 0,
                 !.message = "results"]
    /\ ppc' = "bulk_done"
    /\ UNCHANGED arg
    /\ UNCHANGED <<pagVars, facVars, cmdVars>>

BulkNext == BulkStart \/ BulkConfirm \/ BulkItem \/ BulkFinish

(***************************************************************************)
(* The commands with --limit: search, page search and database query.  The *)
(* server holds `total` results and serves them in pages of the page_size  *)
(* it is asked for; the client method gathers every page.                  *)
(***************************************************************************)
MaxLimit == 2

MaxTotal == 4

\* The largest page_size database query asks for.
MaxPageSize == 100

Min(a, b) == IF a < b THEN a ELSE b

LimitCommands == {"search", "page search", "database query"}

LimitInputs == [command : LimitCommands, limit : 0..MaxLimit, total : 0..MaxTotal]

\* The page_size the command hands to the client method.
PageSizeOf(command, limit) ==
    IF command = "database query"
    THEN IF limit # 0 THEN Min(limit, MaxPageSize) ELSE MaxPageSize
    ELSE limit

\* The results the command prints: search cuts the list at limit, database
\* query cuts it when limit is truthy, page search prints what the client
\* returned.
Limited(command, listed, limit) ==
    CASE command = "search" ->
            IF Len(listed) > limit THEN SubSeq(listed, 1, limit) ELSE listed
      [] command = "database query" ->
            IF limit # 0 /\ Len(listed) > limit THEN SubSeq(listed, 1, limit) ELSE listed
      [] command = "page search" -> listed

\* The command builds its request and calls the client method.
LimCall ==
    /\ ppc = "lim_start"
    /\ out' = [page_size |-> PageSizeOf(arg.command, arg.limit), listed |-> <<>>,
               has_more |-> TRUE, fetches |-> 0, printed |-> <<>>, exit |-> -1]
    /\ ppc' = "lim_loop"
    /\ UNCHANGED arg
    /\ UNCHANGED <<pagVars, facVars, cmdVars>>

\* One iteration of the client's loop.  The server serves page_size results
\* from where the last page ended; asked for a page_size of 0 it either
\* refuses the request or serves pages of its own size.
LimFetch ==
    /\ ppc = "lim_loop"
    /\ out.has_more
    /\ \E refused \in BOOLEAN :
         /\ refused => out.page_size = 0
         /\ IF refused
            THEN /\ out' = [out EXCEPT !.fetches = @ + 1, !.exit = 1]
                 /\ ppc' = "lim_done"
            ELSE LET own == IF out.page_size = 0 THEN 1 ELSE out.page_size
                     from == Len(out.listed)
                     upto == Min(from + own, arg.total)
                 IN /\ out' = [out EXCEPT
                                 !.fetches = @ + 1,
                                 !.listed = @ \o [k \in 1..(upto - from) |-> from + k],
                                 !.has_more = upto < arg.total]
                    /\ ppc' = ppc
    /\ UNCHANGED arg
    /\ UNCHANGED <<pagVars, facVars, cmdVars>>

\* The client returned: the command limits the list and prints it.
LimOutput ==
    /\ ppc = "lim_loop"
    /\ ~out.has_more
    /\ out' = [out EXCEPT !.printed = Limited(arg.command, out.listed, arg.limit),
                          !.exit = 0]
    /\ ppc' = "lim_done"
    /\ UNCHANGED arg
    /\ UNCHANGED <<pagVars, facVars, cmdVars>>

LimNext == LimCall \/ LimFetch \/ LimOutput

(***************************************************************************)
(* config show and config get: the API key is masked before it is printed. *)
(***************************************************************************)
MaxKeyLen == 16

\* A key longer than this is masked.
MaskOver == 10

\* The characters of the key shown before and after the dots.
ShownHead == 10

ShownTail == 4

\* api_key[:10] + "..." + api_key[-4:] for a key of more than 10 characters,
\* the key itself otherwise.
MaskKey(api_key) ==
    IF Len(api_key) > MaskOver
    THEN SubSeq(api_key, 1, ShownHead) \o <<".", ".", ".">>
         \o SubSeq(api_key, Len(api_key) - ShownTail + 1, Len(api_key))
    ELSE api_key

\* The keys drawn: runs of the alphabet, so that no character occurs twice in
\* a key; None when no key is stored.
StoredKeys ==
    { Str(SubSeq(Lowers, r[1], r[2])) :
          r \in { q \in (1..Len(Lowers)) \X (1..Len(Lowers)) :
                      q[1] <= q[2] /\ q[2] - q[1] < MaxKeyLen } }
    \cup { Str(<<>>), None }

\* config show: the value printed for api_key, when the configuration has
\* one.
MaskShow ==
    /\ ppc = "mask_start"
    /\ out' = IF arg.tag = "none"
              THEN [printed |-> FALSE, text |-> <<>>, exit |-> 0]
              ELSE [printed |-> TRUE, text |-> MaskKey(arg.s), exit |-> 0]
    /\ ppc' = "shown"
    /\ UNCHANGED arg
    /\ UNCHANGED <<pagVars, facVars, cmdVars>>

\* config get api_key: a missing key is reported with exit code 1.
MaskGet ==
    /\ ppc = "mask_start"
    /\ out' = IF arg.tag = "none"
              THEN [printed |-> FALSE, text |-> <<>>, exit |-> 1]
              ELSE [printed |-> TRUE, text |-> MaskKey(arg.s), exit |-> 0]
    /\ ppc' = "got"
    /\ UNCHANGED arg
    /\ UNCHANGED <<pagVars, facVars, cmdVars>>

MaskNext == MaskShow \/ MaskGet

(***************************************************************************)
(* config set KEY VALUE: the command run on the Config the program loaded. *)
(***************************************************************************)
\* The keys and the values typed on the command line.
TypedKeys == { KeyApiKey, KeyColorOutput, KeyPageSize, KeyCustomValue }

TypedValues ==
    { <<"t", "e", "s", "t">>, <<"Y", "e", "s">>, <<"0", "1", "0">>, <<"4", "2">>, <<>> }

\* The environments of the command: NOTION_API_KEY and NOTION_PAGE_SIZE set
\* or unset.
SetEnvironments ==
    { env \in Environments :
          /\ env[KeyOutputFormat] = None /\ env[KeyColorOutput] = None
          /\ env[KeyApiKey] \in { None, Str(<<"k">>) }
          /\ env[KeyPageSize] \in { None, Str(<<"5", "0">>) } }

\* The files of the command: none, one with every entry, one with a page
\* size only.
SetFiles ==
    { NoFile, [exists |-> TRUE, doc |-> FileEntries],
      [exists |-> TRUE, doc |-> Keep(FileEntries, {4})] }

\* The value stored for the typed one: a boolean for color_output, int(value)
\* for page_size (ok is FALSE on ValueError), the string otherwise.
TypedValue(key, value) ==
    IF key = KeyColorOutput
    THEN [ok |-> TRUE, value |-> Bool(Lower(value) \in ColorWords)]
    ELSE IF key = KeyPageSize
    THEN IF PyIntParse(value).ok
         THEN [ok |-> TRUE, value |-> PyInt(PyIntParse(value).n)]
         ELSE [ok |-> FALSE, value |-> None]
    ELSE [ok |-> TRUE, value |-> Str(value)]

\* set(ctx, key, value): the conversion, config_obj.set and config_obj.save;
\* ctx.exit(1) leaves before both.
SetCommand ==
    /\ ppc = "cfg_loaded"
    /\ LET typed == TypedValue(arg.key, arg.value)
           config == Dict(DictSet(out.config.items, arg.key, typed.value))
       IN out' = IF typed.ok
                 THEN [config |-> config,
                       file |-> [exists |-> TRUE, doc |-> DumpConfig(config)],
                       calls |-> Append(out.calls, Entry(arg.key, typed.value)),
                       reloaded |-> None, exit |-> 0]
                 ELSE [config |-> out.config, file |-> out.file, calls |-> out.calls,
                       reloaded |-> None, exit |-> 1]
    /\ ppc' = "set_done"
    /\ UNCHANGED arg
    /\ UNCHANGED <<pagVars, facVars, cmdVars>>

SetNext == CfgLoad \/ SetCommand

(***************************************************************************)
(* The interactive loop.  A line is read at the prompt, split and either   *)
(* handled by the loop or handed to the command group, whose call returns  *)
(* or raises.                                                              *)
(***************************************************************************)
MaxInputs == 3

WordExit == <<"e", "x", "i", "t">>

WordQuit == <<"q", "u", "i", "t">>

WordClear == <<"c", "l", "e", "a", "r">>

WordHelp == <<"h", "e", "l", "p">>

WordSearch == <<"s", "e", "a", "r", "c", "h">>

\* The lines typed: empty, blank, the built-in words, an open quotation, an
\* empty quoted word, a command of the group and a mis-typed one.
Lines ==
    { <<>>, <<" ">>, WordExit, <<" ">> \o WordQuit, WordClear, WordHelp,
      <<"\"">>, <<"\"", "\"">>, WordExit \o <<" ">> \o WordHelp,
      WordSearch, WordSearch \o <<" ", "\"", "a", " ", "b", "\"">>,
      <<"s", "e", "r", "c", "h">> }

\* The commands registered on the group.
GroupCommands == { WordSearch }

RECURSIVE ShlexFrom(_, _, _, _, _)
\* shlex.split from the i-th character on: `quote` is the open quotation
\* mark ("" outside one), `token` the word being read.
ShlexFrom(s, i, quote, token, tokens) ==
    IF i > Len(s)
    THEN IF quote # ""
         THEN [ok |-> FALSE, args |-> <<>>]
         ELSE [ok |-> TRUE,
               args |-> IF token.open THEN Append(tokens, token.text) ELSE tokens]
    ELSE LET c == s[i]
         IN IF quote # ""
            THEN IF c = quote
                 THEN ShlexFrom(s, i + 1, "", token, tokens)
                 ELSE ShlexFrom(s, i + 1, quote,
                                [open |-> TRUE, text |-> Append(token.text, c)], tokens)
            ELSE IF c = "\""
            THEN ShlexFrom(s, i + 1, c, [open |-> TRUE, text |-> token.text], tokens)
            ELSE IF IsSpace(c)
            THEN ShlexFrom(s, i + 1, "", [open |-> FALSE, text |-> <<>>],
                           IF token.open THEN Append(tokens, token.text) ELSE tokens)
            ELSE ShlexFrom(s, i + 1, "",
                           [open |-> TRUE, text |-> Append(token.text, c)], tokens)

\* shlex.split(command_line); ok is FALSE on ValueError.
ShlexSplit(command_line) ==
    ShlexFrom(command_line, 1, "", [open |-> FALSE, text |-> <<>>], <<>>)

\* What main_cli.main(args, standalone_mode=False) does: it returns (also
\* on ctx.exit), or raises the SystemExit of a command's handle_error, a
\* usage error, Abort on an interrupt, or an exception no command caught.
\* An unknown command is a usage error.
MainOutcomes(args) ==
    IF args[1] \in GroupCommands
    THEN { "returns", "SystemExit", "UsageError", "Abort", "Exception" }
    ELSE { "UsageError" }

\* The try around main_cli.main: SystemExit is passed over; any other
\* exception goes to handle_error, whose sys.exit(1) leaves the loop.
AfterMain(outcome) ==
    IF outcome \in { "returns", "SystemExit" }
    THEN [ppc |-> "int_prompt", exit |-> -1]
    ELSE [ppc |-> "int_ended", exit |-> 1]

\* The built-in words that leave the loop.
LeaveWords == { WordExit, WordQuit }

\* One pass of the loop body on a line read, `outcome` being what the command
\* group does with it.
AfterLine(command_line, outcome) ==
    LET parsed == ShlexSplit(command_line)
    IN IF Strip(command_line) = <<>> THEN [ppc |-> "int_prompt", exit |-> -1]
       ELSE IF ~parsed.ok THEN [ppc |-> "int_prompt", exit |-> -1]
       ELSE IF parsed.args = <<>> THEN [ppc |-> "int_prompt", exit |-> -1]
       ELSE IF parsed.args[1] \in LeaveWords THEN [ppc |-> "int_ended", exit |-> 0]
       ELSE IF parsed.args[1] \in { WordClear, WordHelp }
       THEN [ppc |-> "int_prompt", exit |-> -1]
       ELSE AfterMain(outcome)

\* Whether the line reaches the command group.
IsCommand(command_line) ==
    LET parsed == ShlexSplit(command_line)
    IN /\ Strip(command_line) # <<>>
       /\ parsed.ok
       /\ parsed.args # <<>>
       /\ parsed.args[1] \notin LeaveWords \cup { WordClear, WordHelp }

\* NotionClient(config.api_key): the loop starts when it connects, the
\* function returns when it does not.
IntStart ==
    /\ ppc = "int_start"
    /\ ppc' = IF arg.connects THEN "int_prompt" ELSE "int_ended"
    /\ out' = [out EXCEPT !.exit = IF arg.connects THEN -1 ELSE 0]
    /\ UNCHANGED arg
    /\ UNCHANGED <<pagVars, facVars, cmdVars>>

\* session.prompt returns a line and the loop body runs on it.
IntLine ==
    /\ ppc = "int_prompt"
    /\ Len(out.inputs) < MaxInputs
    /\ \E command_line \in Lines :
         \E outcome \in (IF IsCommand(command_line)
                        THEN MainOutcomes(ShlexSplit(command_line).args)
                        ELSE { "none" }) :
             LET after == AfterLine(command_line, outcome)
             IN /\ ppc' = after.ppc
                /\ out' = [inputs |-> Append(out.inputs,
                                             [event |-> "line", line |-> command_line,
                                              raised |-> outcome]),
                           exit |-> after.exit]
    /\ UNCHANGED arg
    /\ UNCHANGED <<pagVars, facVars, cmdVars>>

\* session.prompt raises KeyboardInterrupt: the loop continues.
IntInterrupt ==
    /\ ppc = "int_prompt"
    /\ Len(out.inputs) < MaxInputs
    /\ ppc' = "int_prompt"
    /\ out' = [inputs |-> Append(out.inputs,
                                 [event |-> "interrupt", line |-> <<>>, raised |-> "none"]),
               exit |-> -1]
    /\ UNCHANGED arg
    /\ UNCHANGED <<pagVars, facVars, cmdVars>>

\* session.prompt raises EOFError: the loop is left.
IntEof ==
    /\ ppc = "int_prompt"
    /\ Len(out.inputs) < MaxInputs
    /\ ppc' = "int_ended"
    /\ out' = [inputs |-> Append(out.inputs,
                                 [event |-> "eof", line |-> <<>>, raised |-> "none"]),
               exit |-> 0]
    /\ UNCHANGED arg
    /\ UNCHANGED <<pagVars, facVars, cmdVars>>

IntNext == IntStart \/ IntLine \/ IntInterrupt \/ IntEof

(***************************************************************************)
(* The specifications.  Each runs one part of the program from every input *)
(* drawn for it and leaves the variables of the other parts at rest.       *)
(***************************************************************************)
\* One call of a paginated list method against every scripted transport.
PagInit ==
    /\ script \in Scripts
    /\ method = "search"
    /\ pc = "start"
    /\ results = <<>>
    /\ has_more = TRUE
    /\ start_cursor = NoCursor
    /\ params_cursor = NoKey
    /\ requests = <<>>
    /\ returned = Nothing
    /\ raised = Nothing
    /\ auth = None
    /\ environ = None
    /\ self_auth = None
    /\ clients = <<>>
    /\ fpc = "idle"
    /\ remote_calls = 0
    /\ fraised = Nothing
    /\ create_args = NoArgs
    /\ create_request = NoRequest
    /\ database_id = <<>>
    /\ properties = <<>>
    /\ db_properties = <<>>
    /\ cpc = "idle"
    /\ prop_index = 1
    /\ page_properties = <<>>
    /\ remote = <<>>
    /\ echoed = <<>>
    /\ exit_code = -1
    /\ arg = None
    /\ out = None
    /\ ppc = "idle"

SpecPag == PagInit /\ [][PagNext]_vars

\* The construction of a client and one create_page call.
FacInit ==
    /\ script = <<>>
    /\ method = "search"
    /\ pc = "idle"
    /\ results = <<>>
    /\ has_more = TRUE
    /\ start_cursor = NoCursor
    /\ params_cursor = NoKey
    /\ requests = <<>>
    /\ returned = Nothing
    /\ raised = Nothing
    /\ auth \in Credentials
    /\ environ \in Credentials
    /\ self_auth = None
    /\ clients = <<>>
    /\ fpc = "new"
    /\ remote_calls = 0
    /\ fraised = Nothing
    /\ create_args = NoArgs
    /\ create_request = NoRequest
    /\ database_id = <<>>
    /\ properties = <<>>
    /\ db_properties = <<>>
    /\ cpc = "idle"
    /\ prop_index = 1
    /\ page_properties = <<>>
    /\ remote = <<>>
    /\ echoed = <<>>
    /\ exit_code = -1
    /\ arg = None
    /\ out = None
    /\ ppc = "idle"

SpecFac == FacInit /\ [][FacNext]_vars

\* One run of `database create-page`.
CmdInit ==
    /\ script = <<>>
    /\ method = "search"
    /\ pc = "idle"
    /\ results = <<>>
    /\ has_more = TRUE
    /\ start_cursor = NoCursor
    /\ params_cursor = NoKey
    /\ requests = <<>>
    /\ returned = Nothing
    /\ raised = Nothing
    /\ auth = None
    /\ environ = None
    /\ self_auth = None
    /\ clients = <<>>
    /\ fpc = "idle"
    /\ remote_calls = 0
    /\ fraised = Nothing
    /\ create_args = NoArgs
    /\ create_request = NoRequest
    /\ database_id \in {HexId, UuidId}
    /\ properties \in ArgLists(MaxProps) \ { <<>> }
    /\ db_properties = <<>>
    /\ cpc = "start"
    /\ prop_index = 1
    /\ page_properties = <<>>
    /\ remote = <<>>
    /\ echoed = <<>>
    /\ exit_code = -1
    /\ arg = None
    /\ out = None
    /\ ppc = "idle"

SpecCmd == CmdInit /\ [][CmdNext]_vars

\* The encoder applied to every drawn type and value.
CodecInit ==
    /\ script = <<>>
    /\ method = "search"
    /\ pc = "idle"
    /\ results = <<>>
    /\ has_more = TRUE
    /\ start_cursor = NoCursor
    /\ params_cursor = NoKey
    /\ requests = <<>>
    /\ returned = Nothing
    /\ raised = Nothing
    /\ auth = None
    /\ environ = None
    /\ self_auth = None
    /\ clients = <<>>
    /\ fpc = "idle"
    /\ remote_calls = 0
    /\ fraised = Nothing
    /\ create_args = NoArgs
    /\ create_request = NoRequest
    /\ database_id = <<>>
    /\ properties = <<>>
    /\ db_properties = <<>>
    /\ cpc = "idle"
    /\ prop_index = 1
    /\ page_properties = <<>>
    /\ remote = <<>>
    /\ echoed = <<>>
    /\ exit_code = -1
    /\ arg \in [prop_type : PropTypes, value : CodecValues]
    /\ out = None
    /\ ppc = "encode"

SpecCodec == CodecInit /\ [][CodecNext]_vars

\* One function of the formatter applied to every drawn input.
FmtInit ==
    /\ script = <<>>
    /\ method = "search"
    /\ pc = "idle"
    /\ results = <<>>
    /\ has_more = TRUE
    /\ start_cursor = NoCursor
    /\ params_cursor = NoKey
    /\ requests = <<>>
    /\ returned = Nothing
    /\ raised = Nothing
    /\ auth = None
    /\ environ = None
    /\ self_auth = None
    /\ clients = <<>>
    /\ fpc = "idle"
    /\ remote_calls = 0
    /\ fraised = Nothing
    /\ create_args = NoArgs
    /\ create_request = NoRequest
    /\ database_id = <<>>
    /\ properties = <<>>
    /\ db_properties = <<>>
    /\ cpc = "idle"
    /\ prop_index = 1
    /\ page_properties = <<>>
    /\ remote = <<>>
    /\ echoed = <<>>
    /\ exit_code = -1
    /\ arg \in FmtInputs
    /\ out = None
    /\ ppc = "format"

SpecFmt == FmtInit /\ [][FmtNext]_vars

\* One rendering of every drawn datum.
OutInit ==
    /\ script = <<>>
    /\ method = "search"
    /\ pc = "idle"
    /\ results = <<>>
    /\ has_more = TRUE
    /\ start_cursor = NoCursor
    /\ params_cursor = NoKey
    /\ requests = <<>>
    /\ returned = Nothing
    /\ raised = Nothing
    /\ auth = None
    /\ environ = None
    /\ self_auth = None
    /\ clients = <<>>
    /\ fpc = "idle"
    /\ remote_calls = 0
    /\ fraised = Nothing
    /\ create_args = NoArgs
    /\ create_request = NoRequest
    /\ database_id = <<>>
    /\ properties = <<>>
    /\ db_properties = <<>>
    /\ cpc = "idle"
    /\ prop_index = 1
    /\ page_properties = <<>>
    /\ remote = <<>>
    /\ echoed = <<>>
    /\ exit_code = -1
    /\ arg \in OutInputs
    /\ out = None
    /\ ppc = "render"

SpecOut == OutInit /\ [][OutNext]_vars

\* One round trip of every drawn value and stored property.
TripInit ==
    /\ script = <<>>
    /\ method = "search"
    /\ pc = "idle"
    /\ results = <<>>
    /\ has_more = TRUE
    /\ start_cursor = NoCursor
    /\ params_cursor = NoKey
    /\ requests = <<>>
    /\ returned = Nothing
    /\ raised = Nothing
    /\ auth = None
    /\ environ = None
    /\ self_auth = None
    /\ clients = <<>>
    /\ fpc = "idle"
    /\ remote_calls = 0
    /\ fraised = Nothing
    /\ create_args = NoArgs
    /\ create_request = NoRequest
    /\ database_id = <<>>
    /\ properties = <<>>
    /\ db_properties = <<>>
    /\ cpc = "idle"
    /\ prop_index = 1
    /\ page_properties = <<>>
    /\ remote = <<>>
    /\ echoed = <<>>
    /\ exit_code = -1
    /\ arg \in TripInputs
    /\ out = None
    /\ ppc = "trip"

SpecTrip == TripInit /\ [][TripNext]_vars

\* One invocation of page create with a parent that is a database.
PgInit ==
    /\ script = <<>>
    /\ method = "search"
    /\ pc = "idle"
    /\ results = <<>>
    /\ has_more = TRUE
    /\ start_cursor = NoCursor
    /\ params_cursor = NoKey
    /\ requests = <<>>
    /\ returned = Nothing
    /\ raised = Nothing
    /\ auth = None
    /\ environ = None
    /\ self_auth = None
    /\ clients = <<>>
    /\ fpc = "idle"
    /\ remote_calls = 0
    /\ fraised = Nothing
    /\ create_args = NoArgs
    /\ create_request = NoRequest
    /\ database_id \in {HexId, UuidId}
    /\ properties \in SeqsUpTo(PgProps, MaxProps)
    /\ db_properties = <<>>
    /\ cpc = "page_start"
    /\ prop_index = 1
    /\ page_properties = <<>>
    /\ remote = <<>>
    /\ echoed = <<>>
    /\ exit_code = -1
    /\ arg \in PgOptions
    /\ out = None
    /\ ppc = "idle"

SpecPage == PgInit /\ [][PgNext]_vars

\* The loading of a configuration from every drawn file and environment.
CfgInit ==
    /\ script = <<>>
    /\ method = "search"
    /\ pc = "idle"
    /\ results = <<>>
    /\ has_more = TRUE
    /\ start_cursor = NoCursor
    /\ params_cursor = NoKey
    /\ requests = <<>>
    /\ returned = Nothing
    /\ raised = Nothing
    /\ auth = None
    /\ environ = None
    /\ self_auth = None
    /\ clients = <<>>
    /\ fpc = "idle"
    /\ remote_calls = 0
    /\ fraised = Nothing
    /\ create_args = NoArgs
    /\ create_request = NoRequest
    /\ database_id = <<>>
    /\ properties = <<>>
    /\ db_properties = <<>>
    /\ cpc = "idle"
    /\ prop_index = 1
    /\ page_properties = <<>>
    /\ remote = <<>>
    /\ echoed = <<>>
    /\ exit_code = -1
    /\ arg \in [env : Environments, file : Files]
    /\ out = None
    /\ ppc = "cfg_start"

SpecCfg == CfgInit /\ [][CfgNext]_vars

\* A configuration that is loaded, set, saved and loaded again.
SaveInit ==
    /\ script = <<>>
    /\ method = "search"
    /\ pc = "idle"
    /\ results = <<>>
    /\ has_more = TRUE
    /\ start_cursor = NoCursor
    /\ params_cursor = NoKey
    /\ requests = <<>>
    /\ returned = Nothing
    /\ raised = Nothing
    /\ auth = None
    /\ environ = None
    /\ self_auth = None
    /\ clients = <<>>
    /\ fpc = "idle"
    /\ remote_calls = 0
    /\ fraised = Nothing
    /\ create_args = NoArgs
    /\ create_request = NoRequest
    /\ database_id = <<>>
    /\ properties = <<>>
    /\ db_properties = <<>>
    /\ cpc = "idle"
    /\ prop_index = 1
    /\ page_properties = <<>>
    /\ remote = <<>>
    /\ echoed = <<>>
    /\ exit_code = -1
    /\ arg \in [env : SaveEnvironments, file : SaveFiles]
    /\ out = None
    /\ ppc = "cfg_start"

SpecSave == SaveInit /\ [][SaveNext]_vars

\* One run of a bulk command over every drawn file.
BulkInit ==
    /\ script = <<>>
    /\ method = "search"
    /\ pc = "idle"
    /\ results = <<>>
    /\ has_more = TRUE
    /\ start_cursor = NoCursor
    /\ params_cursor = NoKey
    /\ requests = <<>>
    /\ returned = Nothing
    /\ raised = Nothing
    /\ auth = None
    /\ environ = None
    /\ self_auth = None
    /\ clients = <<>>
    /\ fpc = "idle"
    /\ remote_calls = 0
    /\ fraised = Nothing
    /\ create_args = NoArgs
    /\ create_request = NoRequest
    /\ database_id = <<>>
    /\ properties = <<>>
    /\ db_properties = <<>>
    /\ cpc = "idle"
    /\ prop_index = 1
    /\ page_properties = <<>>
    /\ remote = <<>>
    /\ echoed = <<>>
    /\ exit_code = -1
    /\ arg \in BulkInputs
    /\ out = None
    /\ ppc = "bulk_start"

SpecBulk == BulkInit /\ [][BulkNext]_vars

\* One call of a list method against every drawn server; no results are
\* handed back yet.
SrvInit ==
    /\ script \in Servers
    /\ method = "search"
    /\ pc = "start"
    /\ results = <<>>
    /\ has_more = TRUE
    /\ start_cursor = NoCursor
    /\ params_cursor = NoKey
    /\ requests = <<>>
    /\ returned = <<>>
    /\ raised = Nothing
    /\ auth = None
    /\ environ = None
    /\ self_auth = None
    /\ clients = <<>>
    /\ fpc = "idle"
    /\ remote_calls = 0
    /\ fraised = Nothing
    /\ create_args = NoArgs
    /\ create_request = NoRequest
    /\ database_id = <<>>
    /\ properties = <<>>
    /\ db_properties = <<>>
    /\ cpc = "idle"
    /\ prop_index = 1
    /\ page_properties = <<>>
    /\ remote = <<>>
    /\ echoed = <<>>
    /\ exit_code = -1
    /\ arg = None
    /\ out = None
    /\ ppc = "idle"

\* The method runs on: no step of it waits for anything but the server's answer.
SpecSrvLive == SrvInit /\ [][SrvNext]_vars /\ WF_<<pc, requests>>(SrvNext)

\* One run of a command with --limit against every drawn server.
LimInit ==
    /\ script = <<>>
    /\ method = "search"
    /\ pc = "idle"
    /\ results = <<>>
    /\ has_more = TRUE
    /\ start_cursor = NoCursor
    /\ params_cursor = NoKey
    /\ requests = <<>>
    /\ returned = Nothing
    /\ raised = Nothing
    /\ auth = None
    /\ environ = None
    /\ self_auth = None
    /\ clients = <<>>
    /\ fpc = "idle"
    /\ remote_calls = 0
    /\ fraised = Nothing
    /\ create_args = NoArgs
    /\ create_request = NoRequest
    /\ database_id = <<>>
    /\ properties = <<>>
    /\ db_properties = <<>>
    /\ cpc = "idle"
    /\ prop_index = 1
    /\ page_properties = <<>>
    /\ remote = <<>>
    /\ echoed = <<>>
    /\ exit_code = -1
    /\ arg \in LimitInputs
    /\ out = None
    /\ ppc = "lim_start"

SpecLimit == LimInit /\ [][LimNext]_vars

\* The printing of every drawn API key.
MaskInit ==
    /\ script = <<>>
    /\ method = "search"
    /\ pc = "idle"
    /\ results = <<>>
    /\ has_more = TRUE
    /\ start_cursor = NoCursor
    /\ params_cursor = NoKey
    /\ requests = <<>>
    /\ returned = Nothing
    /\ raised = Nothing
    /\ auth = None
    /\ environ = None
    /\ self_auth = None
    /\ clients = <<>>
    /\ fpc = "idle"
    /\ remote_calls = 0
    /\ fraised = Nothing
    /\ create_args = NoArgs
    /\ create_request = NoRequest
    /\ database_id = <<>>
    /\ properties = <<>>
    /\ db_properties = <<>>
    /\ cpc = "idle"
    /\ prop_index = 1
    /\ page_properties = <<>>
    /\ remote = <<>>
    /\ echoed = <<>>
    /\ exit_code = -1
    /\ arg \in StoredKeys
    /\ out = None
    /\ ppc = "mask_start"

SpecMask == MaskInit /\ [][MaskNext]_vars

\* config set of every typed key and value, in every drawn environment and file.
SetInit ==
    /\ script = <<>>
    /\ method = "search"
    /\ pc = "idle"
    /\ results = <<>>
    /\ has_more = TRUE
    /\ start_cursor = NoCursor
    /\ params_cursor = NoKey
    /\ requests = <<>>
    /\ returned = Nothing
    /\ raised = Nothing
    /\ auth = None
    /\ environ = None
    /\ self_auth = None
    /\ clients = <<>>
    /\ fpc = "idle"
    /\ remote_calls = 0
    /\ fraised = Nothing
    /\ create_args = NoArgs
    /\ create_request = NoRequest
    /\ database_id = <<>>
    /\ properties = <<>>
    /\ db_properties = <<>>
    /\ cpc = "idle"
    /\ prop_index = 1
    /\ page_properties = <<>>
    /\ remote = <<>>
    /\ echoed = <<>>
    /\ exit_code = -1
    /\ arg \in [env : SetEnvironments, file : SetFiles, key : TypedKeys, value : TypedValues]
    /\ out = None
    /\ ppc = "cfg_start"

SpecSet == SetInit /\ [][SetNext]_vars

\* An interactive session of up to MaxInputs inputs.
IntInit ==
    /\ script = <<>>
    /\ method = "search"
    /\ pc = "idle"
    /\ results = <<>>
    /\ has_more = TRUE
    /\ start_cursor = NoCursor
    /\ params_cursor = NoKey
    /\ requests = <<>>
    /\ returned = Nothing
    /\ raised = Nothing
    /\ auth = None
    /\ environ = None
    /\ self_auth = None
    /\ clients = <<>>
    /\ fpc = "idle"
    /\ remote_calls = 0
    /\ fraised = Nothing
    /\ create_args = NoArgs
    /\ create_request = NoRequest
    /\ database_id = <<>>
    /\ properties = <<>>
    /\ db_properties = <<>>
    /\ cpc = "idle"
    /\ prop_index = 1
    /\ page_properties = <<>>
    /\ remote = <<>>
    /\ echoed = <<>>
    /\ exit_code = -1
    /\ arg \in [connects : BOOLEAN]
    /\ out = [inputs |-> <<>>, exit |-> -1]
    /\ ppc = "int_start"

SpecInt == IntInit /\ [][IntNext]_vars

(***************************************************************************)
(* Properties of the paginated list methods.                               *)
(***************************************************************************)
RECURSIVE Flatten(_, _)
\* The results of the first n scripted responses, in page order.
Flatten(s, n) == IF n = 0 THEN <<>> ELSE Flatten(s, n - 1) \o s[n].results

\* The script is N pages, has_more true on the first N-1 and false on the last.
ExhaustionScript(s) ==
    /\ \A i \in 1..Len(s) : s[i].kind = "ok"
    /\ \A i \in 1..(Len(s) - 1) : s[i].has_more = "true"
    /\ Len(s) >= 1 => s[Len(s)].has_more = "false"

PaginationExhaustionFor(s) ==
    /\ pc # "raised"
    /\ Len(requests) <= Len(s)
    /\ pc = "returned" => returned = Flatten(s, Len(s)) /\ Len(requests) = Len(s)

\* C1 as stated, N >= 0 included: against N pages served in order, every list
\* method returns the concatenation of the pages and fetches exactly N times.
C1_ExhaustionFromZero ==
    ExhaustionScript(script) => PaginationExhaustionFor(script)

\* C1 amended to N >= 1: against N >= 1 pages, has_more true on all but the
\* last, every list method never fails, never fetches more than N times and
\* returns exactly the concatenation of the N pages after exactly N fetches.
C1_PaginationExhaustion ==
    (ExhaustionScript(script) /\ Len(script) >= 1) => PaginationExhaustionFor(script)

C1_Witness ==
    /\ ExhaustionScript(script)
    /\ Len(script) = 3
    /\ pc = "returned"
    /\ Len(returned) >= 4
    /\ method = "get_comments"

\* C2: no request follows a response whose has_more is false or absent,
\* whatever next_cursor it carries; when the first response is such a
\* response the method returns after exactly one fetch.
C2_HasMoreAuthoritative ==
    /\ \A k \in 1..(Len(requests) - 1) :
          /\ Transport(script, k).kind = "ok"
          /\ Transport(script, k).has_more = "true"
    /\ (/\ pc = "returned"
        /\ Len(script) >= 1
        /\ script[1].kind = "ok"
        /\ script[1].has_more # "true") => Len(requests) = 1

C2_Witness ==
    /\ pc = "returned"
    /\ Len(script) >= 2
    /\ script[1].kind = "ok"
    /\ script[1].has_more = "false"
    /\ Truthy(script[1].next_cursor)
    /\ Len(requests) = 1

\* What a request carries when it threads the cursor of a response: the
\* cursor itself, or no start_cursor key when the response gave none.
Threaded(cursor) == IF Truthy(cursor) THEN cursor ELSE NoKey

\* C3: the first request carries no start cursor and every later request
\* carries the next_cursor of the response immediately before it, never the
\* cursor of an older response.
C3_CursorThreading ==
    \A k \in 1..Len(requests) :
        IF k = 1
        THEN requests[k] = NoKey
        ELSE requests[k] = Threaded(Transport(script, k - 1).next_cursor)

\* C4: when the k-th fetch fails the method raises that very error, returns
\* nothing, and the failed fetch is the last request: no retry, no later
\* fetch, and no request is ever issued after a failed one.
C4_FailurePropagation ==
    /\ \A k \in 1..(Len(requests) - 1) : Transport(script, k).kind = "ok"
    /\ (Len(requests) >= 1 /\ Transport(script, Len(requests)).kind = "error")
          => /\ pc = "raised"
             /\ raised = Transport(script, Len(requests)).error
             /\ returned = Nothing
    /\ pc = "raised" => returned = Nothing

C4_Witness ==
    /\ pc = "raised"
    /\ Len(script) = 3
    /\ Len(requests) = 3
    /\ script[3].kind = "error"
    /\ Len(results) = 4

(***************************************************************************)
(* Properties of the construction of the client and of create_page.        *)
(***************************************************************************)
CredentialMissing == ~StrTruthy(auth) /\ ~StrTruthy(environ)

\* C5: without a credential (no auth argument, no NOTION_API_KEY) the
\* constructor raises the configuration error, constructs no transport and
\* issues no remote request; with a credential (the argument first, else the
\* environment) the transport is constructed exactly once, with it, and no
\* remote request is ever issued without a transport.
C5_MissingCredentialFatal ==
    /\ (CredentialMissing /\ fpc # "new")
          => /\ fpc = "failed"
             /\ fraised = ValueError
             /\ clients = <<>>
             /\ remote_calls = 0
    /\ (~CredentialMissing /\ fpc # "new")
          => clients = << IF auth.tag = "str" /\ auth.s # <<>> THEN auth ELSE environ >>
    /\ remote_calls > 0 => Len(clients) = 1

C5_Witness ==
    /\ auth = None
    /\ environ = None
    /\ fpc = "failed"
    /\ fraised = ValueError

\* C6: create_page sends a string parent of length 32, or without a hyphen,
\* as {database_id: parent} and any other string as {page_id: parent}; it
\* sends a mapping parent unchanged; the properties are passed on as given;
\* and the request holds only parent and properties when children, icon and
\* cover are not supplied.
C6_ParentClassification ==
    fpc = "created" =>
        LET given == create_args.parent
            sent == create_request.parent
            hyphens == { i \in 1..Len(given.s) : given.s[i] = "-" }
        IN /\ (given.tag = "str" /\ (Len(given.s) = 32 \/ hyphens = {}))
                 => sent = [tag |-> "dict", key |-> "database_id", s |-> given.s]
           /\ (given.tag = "str" /\ Len(given.s) # 32 /\ hyphens # {})
                 => sent = [tag |-> "dict", key |-> "page_id", s |-> given.s]
           /\ given.tag = "dict" => sent = given
           /\ create_request.properties = create_args.properties
           /\ (/\ create_args.children = "None"
               /\ create_args.icon = "None"
               /\ create_args.cover = "None")
                 => create_request.keys = {"parent", "properties"}

C6_Witness ==
    /\ fpc = "created"
    /\ create_args.parent = ParentStr(HyphenId32)
    /\ create_request.parent.key = "database_id"
    /\ create_args.children = "None"
    /\ create_args.icon = "None"
    /\ create_args.cover = "None"

(***************************************************************************)
(* Properties of `database create-page` and of its encoder.                *)
(***************************************************************************)
CountName == <<"C", "o", "u", "n", "t">>

\* The i-th --property argument is Count=v; Count is the number property.
IsCount(i, v) == properties[i] = CountName \o <<"=">> \o v

\* The drawn values that are not numbers.
NonNumeric == { <<"a", "b", "c">>, <<"A", ",", " ", "B", ",", "C">>, <<>> }

FortyTwo == [tag |-> "float", kind |-> "finite", neg |-> FALSE, num |-> 42, exp |-> 0]

\* The command ended at the i-th argument with the invalid-number error and
\* never asked for a page to be created.
FailedLocallyAt(i) ==
    /\ cpc = "exit"
    /\ exit_code = 1
    /\ prop_index = i + 1
    /\ echoed # <<>>
    /\ echoed[Len(echoed)] = [msg |-> "Error: Invalid number value", name |-> CountName]
    /\ \A k \in 1..Len(remote) : remote[k].op # "pages.create"

\* "42", once encoded, is the number 42 in the request's properties.
EncodedFortyTwoAt(i) ==
    prop_index = i + 1 =>
        \E k \in 1..Len(page_properties) :
            /\ page_properties[k].name = CountName
            /\ page_properties[k].value.key = "number"
            /\ page_properties[k].value.val = FortyTwo

\* C7 as stated: a non-numeric value for a number property fails with the
\* invalid-number error before any remote call has been attempted, and no
\* page is created; "42" encodes to the number 42.
C7_NoRemoteCallBeforeError ==
    \A i \in 1..Len(properties) :
        i < prop_index =>
            /\ \A v \in NonNumeric :
                 IsCount(i, v) => FailedLocallyAt(i) /\ remote = <<>>
            /\ IsCount(i, <<"4", "2">>) => EncodedFortyTwoAt(i)

\* C7 amended: a value float() rejects for a number property ends the command
\* with the invalid-number error and exit status 1 at that property, after
\* the connection test and the schema lookup and with no page-create request
\* ever issued; "42" encodes to the number 42.
C7_InvalidNumberLocal ==
    \A i \in 1..Len(properties) :
        i < prop_index =>
            /\ \A v \in NonNumeric :
                 IsCount(i, v) =>
                     /\ FailedLocallyAt(i)
                     /\ Len(remote) = 2
                     /\ remote[1].op = "search"
                     /\ remote[2].op = "databases.retrieve"
            /\ IsCount(i, <<"4", "2">>) => EncodedFortyTwoAt(i)

C7_Witness ==
    /\ Len(properties) = 2
    /\ IsCount(1, <<"4", "2">>)
    /\ IsCount(2, <<"a", "b", "c">>)
    /\ FailedLocallyAt(2)
    /\ Len(page_properties) = 1

\* The places of the commas of v, and the k-th of them (0 before the first,
\* Len(v) + 1 after the last).
Commas(v) == { i \in 1..Len(v) : v[i] = "," }

CommaAt(v, k) ==
    IF k = 0 THEN 0
    ELSE IF k > Cardinality(Commas(v)) THEN Len(v) + 1
    ELSE CHOOSE i \in Commas(v) : Cardinality({ c \in Commas(v) : c <= i }) = k

\* The k-th part of v between commas, without the whitespace around it.
TrimmedPart(v, k) ==
    LET lo == CommaAt(v, k - 1) + 1
        hi == CommaAt(v, k) - 1
        inked == { i \in lo..hi : v[i] \notin {" ", "\t", "\n"} }
    IN IF inked = {} THEN <<>>
       ELSE SubSeq(v, CHOOSE i \in inked : \A j \in inked : i <= j,
                      CHOOSE i \in inked : \A j \in inked : i >= j)

\* C8: a multi_select value encodes to one {name: part} option per
\* comma-separated part, in input order, each part trimmed of the
\* whitespace on both sides; "A, B,C" yields exactly A, B, C.
C8_MultiSelectEncoding ==
    (ppc = "encoded" /\ arg.prop_type = "multi_select") =>
        /\ out.outcome = "set"
        /\ out.prop.key = "multi_select"
        /\ Len(out.prop.val.items) = Cardinality(Commas(arg.value)) + 1
        /\ \A k \in 1..Len(out.prop.val.items) :
             out.prop.val.items[k] =
                 [tag |-> "option", name |-> [tag |-> "str", s |-> TrimmedPart(arg.value, k)]]
        /\ arg.value = <<"A", ",", " ", "B", ",", "C">> =>
             out.prop.val.items = << Option(<<"A">>), Option(<<"B">>), Option(<<"C">>) >>

C8_Witness ==
    /\ ppc = "encoded"
    /\ arg.prop_type = "multi_select"
    /\ arg.value = <<"A", ",", " ", "B", ",", "C">>
    /\ Len(out.prop.val.items) = 3

(***************************************************************************)
(* Properties of the formatter.                                            *)
(***************************************************************************)
KnownTypes ==
    {"title", "rich_text", "number", "select", "multi_select", "date",
     "checkbox", "url", "email", "phone_number", "relation", "people"}

\* The property has no value: its payload key is missing, or is null, or is
\* the empty sequence.
Unset(p) == p.key = "absent" \/ p.val = None \/ p.val = [tag |-> "list", items |-> <<>>]

\* C9: simplifying a property map does not fail on unset values; a checkbox
\* without an explicit value becomes false, a select whose selection is null
\* becomes null, a multi_select without options becomes the empty sequence,
\* and a property whose type is not a known variant comes out unchanged.
C9_SimplifyDefaults ==
    ppc = "simplified" =>
        /\ ~out.raised
        /\ Len(out.dict) = Len(arg.data)
        /\ \A i \in 1..Len(arg.data) :
             LET p == arg.data[i].value
                 v == out.dict[i].value
             IN /\ out.dict[i].name = arg.data[i].name
                /\ (p.type = "checkbox" /\ p.key = "absent") =>
                       v = [tag |-> "bool", b |-> FALSE]
                /\ (p.type = "select" /\ p.key = "select" /\ p.val = None) => v = None
                /\ (p.type = "multi_select" /\ Unset(p)) =>
                       v = [tag |-> "list", items |-> <<>>]
                /\ p.type \notin KnownTypes => v = p

C9_Witness ==
    /\ ppc = "simplified"
    /\ Len(arg.data) = 2
    /\ arg.data[1].value = [type |-> "select", key |-> "select", val |-> None]
    /\ arg.data[2].value = [type |-> "checkbox", key |-> "absent", val |-> None]
    /\ ~out.raised
    /\ out.dict[1].value = None
    /\ out.dict[2].value = [tag |-> "bool", b |-> FALSE]

RECURSIVE Concat(_)
\* The plain texts of the runs, one after the other.
Concat(runs) ==
    IF runs = <<>> THEN <<>>
    ELSE (IF Head(runs).plain_text = None THEN <<>> ELSE Head(runs).plain_text.s)
         \o Concat(Tail(runs))

\* The runs a title carries, none when the key is missing or null.
RunsOf(v) == IF "items" \in DOMAIN v THEN v.items ELSE <<>>

TitleProps(r) == { i \in 1..Len(r.properties) : r.properties[i].value.type = "title" }

FirstTitleRuns(r) ==
    LET i == CHOOSE k \in TitleProps(r) : \A j \in TitleProps(r) : k <= j
    IN IF r.properties[i].value.key = "title"
       THEN RunsOf(r.properties[i].value.val) ELSE <<>>

UntitledText == [tag |-> "str", s |-> <<"U", "n", "t", "i", "t", "l", "e", "d">>]

\* C10: the display title of a page result is the concatenated text of its
\* first title-typed property, and "Untitled" when it has no title-typed
\* property or when that property's rich text is empty; the display title of
\* a database result is the concatenated text of the database title.
C10_TitleDerivation ==
    ppc = "searched" =>
        \A i \in 1..Len(arg.data) :
            LET r == arg.data[i]
                title == out.dict[i].title
            IN /\ r.object = "database" =>
                      title = [tag |-> "str", s |-> Concat(RunsOf(r.title))]
               /\ r.object = "page" =>
                      title = IF TitleProps(r) = {} \/ FirstTitleRuns(r) = <<>>
                              THEN UntitledText
                              ELSE [tag |-> "str", s |-> Concat(FirstTitleRuns(r))]

\* What the code does hold to: "Untitled" only when no property is
\* title-typed; an empty title gives the empty text.
C10_TitleAsComputed ==
    ppc = "searched" =>
        \A i \in 1..Len(arg.data) :
            LET r == arg.data[i]
                title == out.dict[i].title
            IN /\ r.object = "database" =>
                      title = [tag |-> "str", s |-> Concat(RunsOf(r.title))]
               /\ r.object = "page" =>
                      title = IF TitleProps(r) = {}
                              THEN UntitledText
                              ELSE [tag |-> "str", s |-> Concat(FirstTitleRuns(r))]

\* A page whose title-typed property holds no text has been given a title.
C10_EmptyTitleFormatted ==
    /\ ppc = "searched"
    /\ \E i \in 1..Len(arg.data) :
         /\ arg.data[i].object = "page"
         /\ TitleProps(arg.data[i]) # {}
         /\ FirstTitleRuns(arg.data[i]) = <<>>
         /\ out.dict[i].title = [tag |-> "str", s |-> <<>>]

(***************************************************************************)
(* Properties of the table formatter.                                      *)
(***************************************************************************)
\* C11: the table formatter answers the empty sequence with exactly the text
\* "No data to display", whether color is on or off.
C11_EmptyTable ==
    (ppc = "rendered" /\ arg.fn = "format" /\ arg.data = [tag |-> "list", items |-> <<>>]) =>
        out = [kind |-> "str",
               text |-> <<"N", "o", " ", "d", "a", "t", "a", " ", "t", "o", " ",
                          "d", "i", "s", "p", "l", "a", "y">>]

C11_Witness ==
    /\ ppc = "rendered"
    /\ arg.fn = "format"
    /\ arg.data = [tag |-> "list", items |-> <<>>]
    /\ ~arg.color
    /\ out.kind = "str"
    /\ Len(out.text) = 18

\* The cell the table variant is to show for the boolean b.
BoolCell(b, color) ==
    IF color THEN (IF b THEN <<"U+2713">> ELSE <<"U+2717">>)
    ELSE (IF b THEN <<"T", "r", "u", "e">> ELSE <<"F", "a", "l", "s", "e">>)

\* C12: a boolean cell of a key/value table is the check or cross glyph when
\* color is on and the text True or False when color is off.
C12_BooleanCells ==
    (ppc = "rendered" /\ arg.fn = "format" /\ arg.data.tag = "dict") =>
        \A i \in 1..Len(arg.data.items) :
            arg.data.items[i].value.tag = "bool" =>
                out.rows[i][2] = BoolCell(arg.data.items[i].value.b, arg.color)

\* What the code holds to: true is the check glyph with or without color.
C12_BooleanCellsAsComputed ==
    (ppc = "rendered" /\ arg.fn = "format" /\ arg.data.tag = "dict") =>
        \A i \in 1..Len(arg.data.items) :
            arg.data.items[i].value.tag = "bool" =>
                out.rows[i][2] = IF arg.data.items[i].value.b THEN <<"U+2713">>
                                 ELSE BoolCell(FALSE, arg.color)

(***************************************************************************)
(* Properties of print_output.                                             *)
(***************************************************************************)
\* The datum is a mapping whose object tag is the given name.
Tagged(d, name) ==
    IF "tag" \in DOMAIN d
    THEN /\ d.tag = "dict"
         /\ \E i \in 1..Len(d.items) :
              /\ d.items[i].name = <<"o", "b", "j", "e", "c", "t">>
              /\ d.items[i].value = [tag |-> "str", s |-> name]
    ELSE "object" \in DOMAIN d /\ Chars(d.object) = name

\* The datum is a mapping that carries an object tag.
CarriesTag(d) ==
    IF "tag" \in DOMAIN d
    THEN d.tag = "dict" /\ \E i \in 1..Len(d.items) :
                              d.items[i].name = <<"o", "b", "j", "e", "c", "t">>
    ELSE "object" \in DOMAIN d

ListedResults(d) == IF "results" \in DOMAIN d THEN d.results ELSE <<>>

BlockList(d) ==
    /\ Tagged(d, <<"l", "i", "s", "t">>)
    /\ ListedResults(d) # <<>>
    /\ Tagged(ListedResults(d)[1], <<"b", "l", "o", "c", "k">>)

TaggedSequence(d) ==
    /\ "tag" \in DOMAIN d
    /\ d.tag = "list"
    /\ d.items # <<>>
    /\ CarriesTag(d.items[1])

\* C13: print_output sends a mapping tagged page to the page simplification,
\* one tagged database to the database simplification, one tagged list whose
\* first result is a block to the block simplification, every other list
\* mapping and every bare sequence whose first element carries an object tag
\* to the search-result simplification, and renders everything else as it
\* is; each input takes exactly one of these routes.
C13_OutputDispatch ==
    ppc = "printed" =>
        LET d == arg.data
        IN /\ out.route \in {"page", "database", "block", "search", "generic"}
           /\ out.route = "page" <=> Tagged(d, <<"p", "a", "g", "e">>)
           /\ out.route = "database" <=> Tagged(d, <<"d", "a", "t", "a", "b", "a", "s", "e">>)
           /\ out.route = "block" <=> BlockList(d)
           /\ out.route = "search" <=>
                 \/ Tagged(d, <<"l", "i", "s", "t">>) /\ ~BlockList(d)
                 \/ TaggedSequence(d)
           /\ out.route = "generic" => (out.raised = "no" /\ out.simplified = d)

C13_Witness ==
    /\ ppc = "printed"
    /\ out.route = "block"
    /\ "results" \in DOMAIN arg.data
    /\ Len(arg.data.results) = 2
    /\ Tagged(arg.data.results[2], <<"p", "a", "g", "e">>)

\* The datum is a list mapping of exactly two page records, printed as a table.
TwoPageList ==
    /\ ppc = "printed"
    /\ out.formatter = "table"
    /\ Tagged(arg.data, <<"l", "i", "s", "t">>)
    /\ Len(ListedResults(arg.data)) = 2
    /\ \A i \in 1..2 : Tagged(arg.data.results[i], <<"p", "a", "g", "e">>)

PageKeys(page) ==
    << <<"i", "d">>, Chars("created_time"), Chars("last_edited_time"), Chars("archived"),
       <<"u", "r", "l">>, Chars("properties") >>
    \o (IF "parent" \in DOMAIN page /\ page.parent # None THEN << Chars("parent") >> ELSE <<>>)

\* C14 as stated: a list of two pages printed as a table has the keys of the
\* simplified page as its header, and the JSON form of the first page's
\* simplified properties in the first row's properties cell.
C14_PageListTable ==
    TwoPageList =>
        /\ out.output.kind = "table"
        /\ out.output.header = PageKeys(arg.data.results[1])
        /\ Len(out.output.rows) = 2
        /\ out.output.rows[1][6] =
               JsonDumps(AsDict(SimplifyProperties(
                   IF "properties" \in DOMAIN arg.data.results[1]
                   THEN arg.data.results[1].properties ELSE <<>>).dict))

\* The text of a value read with a default of None and shown in a cell.
CellOf(page, key) == IF key \in DOMAIN page THEN page[key].s ELSE <<>>

FirstTen(s) == [i \in 1..(IF Len(s) < 10 THEN Len(s) ELSE 10) |-> s[i]]

PageTitleCell(page) ==
    IF "properties" \notin DOMAIN page \/ TitleProps(page) = {}
    THEN <<"U", "n", "t", "i", "t", "l", "e", "d">>
    ELSE Concat(FirstTitleRuns(page))

\* C14: a list of two pages printed as a table has the header type, id, url,
\* last_edited, title, and one row per page holding the page's tag, id, url,
\* the first ten characters of its last-edited time, and the text of its
\* first title-typed property ("Untitled" when it has none).
C14_SearchListTable ==
    TwoPageList =>
        /\ out.output.kind = "table"
        /\ out.output.header =
               << <<"t", "y", "p", "e">>, <<"i", "d">>, <<"u", "r", "l">>,
                  <<"l", "a", "s", "t", "_", "e", "d", "i", "t", "e", "d">>,
                  <<"t", "i", "t", "l", "e">> >>
        /\ Len(out.output.rows) = 2
        /\ \A i \in 1..2 :
             LET page == arg.data.results[i]
             IN out.output.rows[i] =
                    << <<"p", "a", "g", "e">>, CellOf(page, "id"), CellOf(page, "url"),
                       FirstTen(CellOf(page, "last_edited_time")), PageTitleCell(page) >>

C14_Witness ==
    /\ TwoPageList
    /\ "properties" \in DOMAIN arg.data.results[1]
    /\ Len(arg.data.results[1].properties) = 2
    /\ out.output.kind = "table"
    /\ out.output.rows[1][5] = <<"H", "i">>

\* C15: no record routed through the page, database, block or search-result
\* simplification makes the formatter raise, whatever expected keys it lacks.
C15_NoRaiseOnAbsentKeys ==
    (ppc = "printed" /\ out.route # "generic") => out.raised = "no"

\* Where the formatter does raise: a listed result without "object", or a
\* schema property without "type".
C15_RaisesOnlyOnObjectOrType ==
    (ppc = "printed" /\ out.raised # "no") =>
        \/ /\ out.route = "search"
           /\ \E i \in 1..Len(IF "tag" \in DOMAIN arg.data THEN arg.data.items
                              ELSE ListedResults(arg.data)) :
                ~CarriesTag((IF "tag" \in DOMAIN arg.data THEN arg.data.items
                             ELSE ListedResults(arg.data))[i])
        \/ /\ out.route = "database"
           /\ \E i \in 1..Len(arg.data.properties) :
                arg.data.properties[i].value.type = "absent"

(***************************************************************************)
(* Properties of the two codec directions together.                        *)
(***************************************************************************)
\* The names of the parts of a multi_select value.
PartNames(v) ==
    [k \in 1..(Cardinality(Commas(v)) + 1) |-> [tag |-> "str", s |-> TrimmedPart(v, k)]]

\* What the value written for the variant means.
ContentOf(prop_type, value, written) ==
    CASE prop_type \in {"number", "checkbox"} -> written.val
      [] prop_type = "multi_select" -> [tag |-> "list", items |-> PartNames(value)]
      [] OTHER -> [tag |-> "str", s |-> value]

\* Some string encodes, for the variant, to a property shown as d.
Reconstructible(prop_type, d) ==
    \E s \in CodecValues :
        /\ EncodeThenSimplify(prop_type, s).outcome = "set"
        /\ EncodeThenSimplify(prop_type, s).shown = d

\* C16: for every write-supported variant, a value that is encoded and then
\* simplified is shown with the content it was given, and the display value
\* of every property of the variant is one that encoding can reproduce.
C16_CodecRoundTrip ==
    /\ (ppc = "written" /\ out.outcome = "set") =>
           out.shown = ContentOf(arg.prop_type, arg.value, out.prop)
    /\ ppc = "read" => Reconstructible(arg.prop_type, out.shown)

\* The property has a value: a payload that is neither null nor an empty
\* sequence of options.  A checkbox always has one.
IsSet(p) ==
    \/ p.type \in {"checkbox", "title", "rich_text"}
    \/ p.key # "absent" /\ p.val # None /\ p.val # [tag |-> "list", items |-> <<>>]

\* What the code holds to: the round trip of C16 for every property that is
\* set.
C16_RoundTripOfSetValues ==
    /\ (ppc = "written" /\ out.outcome = "set") =>
           out.shown = ContentOf(arg.prop_type, arg.value, out.prop)
    /\ (ppc = "read" /\ IsSet(arg.stored)) => Reconstructible(arg.prop_type, out.shown)

\* No string encodes to a multi_select without options.
C16_NeverNoOptions ==
    (ppc = "written" /\ arg.prop_type = "multi_select") =>
        /\ out.outcome = "set"
        /\ Len(out.shown.items) >= 1

\* The i-th --property argument names a property the schema lacks (Ghost) or
\* one whose type cannot be written (Owner, a people property).
SkippedName(i) ==
    IF \E v \in CmdValues : properties[i] = <<"G", "h", "o", "s", "t", "=">> \o v
    THEN <<"G", "h", "o", "s", "t">>
    ELSE IF \E v \in CmdValues : properties[i] = <<"O", "w", "n", "e", "r", "=">> \o v
    THEN <<"O", "w", "n", "e", "r">>
    ELSE <<>>

WarningFor(name) ==
    IF name = <<"G", "h", "o", "s", "t">>
    THEN [msg |-> "Warning: not found in database schema", name |-> name]
    ELSE [msg |-> "Warning: Unsupported property type", name |-> name]

PageCreateSent == \E k \in 1..Len(remote) : remote[k].op = "pages.create"

\* C18: in database create-page, a property the schema lacks or whose type is
\* not write-supported is answered with a warning, adds no entry to the
\* request's properties, and does not end the command: the properties after
\* it are still handled and the page-create request is still sent.
C18_SkippedNotFatal ==
    \A i \in 1..Len(properties) :
        (i < prop_index /\ SkippedName(i) # <<>>) =>
            /\ \E k \in 1..Len(echoed) : echoed[k] = WarningFor(SkippedName(i))
            /\ \A k \in 1..Len(page_properties) : page_properties[k].name # SkippedName(i)
            /\ (cpc = "exit" /\ prop_index = i + 1) => PageCreateSent
            /\ cpc = "done" =>
                 /\ PageCreateSent
                 /\ remote[Len(remote)].request.properties = page_properties

C18_Witness ==
    /\ Len(properties) = 2
    /\ properties[1] = <<"G", "h", "o", "s", "t", "=", "4", "2">>
    /\ properties[2] = <<"O", "w", "n", "e", "r", "=", "a", "b", "c">>
    /\ cpc = "done"
    /\ Len(echoed) = 2
    /\ page_properties = <<>>
    /\ PageCreateSent

\* The type the schema of the database declares for the name, "" if none.
Declared(name) ==
    IF \E i \in 1..Len(SchemaProperties) : SchemaProperties[i].name = name
    THEN SchemaProperties[CHOOSE i \in 1..Len(SchemaProperties) :
                             SchemaProperties[i].name = name].value
    ELSE ""

\* C17: whenever a page is created in a database, every property the
\* database's schema declares is sent encoded as its declared type, never as
\* the type guessed from the shape of the value.
C17_SchemaAwareWins ==
    \A k \in 1..Len(remote) :
        (remote[k].op = "pages.create" /\ remote[k].request.parent.key = "database_id") =>
            \A j \in 1..Len(remote[k].request.properties) :
                LET sent == remote[k].request.properties[j]
                IN Declared(sent.name) # "" => sent.value.key = Declared(sent.name)

\* A page was created in a database with a declared property sent as guessed.
C17_GuessedInDatabase ==
    /\ cpc = "done"
    /\ remote[Len(remote)].request.parent.key = "database_id"
    /\ \E j \in 1..Len(page_properties) :
         /\ page_properties[j].name = <<"C", "o", "u", "n", "t">>
         /\ page_properties[j].value.key = "rich_text"

\* The variable of the key is set, non-empty and, for page_size, an integer.
EnvApplies(env, key) ==
    /\ env[key].tag = "str" /\ env[key].s # <<>>
    /\ key = KeyPageSize => PyIntParse(env[key].s).ok

\* What the variable of the key says.
EnvSays(env, key) ==
    IF key = KeyColorOutput THEN Bool(Lower(env[key].s) \in ColorWords)
    ELSE IF key = KeyPageSize THEN PyInt(PyIntParse(env[key].s).n)
    ELSE env[key]

\* What the file says of the key: NoKeyValue when it does not mention it.
FileSays(file, key) ==
    IF file.exists /\ \E i \in 1..Len(file.doc) : file.doc[i].name = key
    THEN YamlLoad(file.doc[CHOOSE i \in 1..Len(file.doc) : file.doc[i].name = key].value)
    ELSE NoKeyValue

\* The default of the key: api_key has none.
DefaultOf(key) ==
    IF key = KeyOutputFormat THEN Str(<<"j", "s", "o", "n">>)
    ELSE IF key = KeyColorOutput THEN Bool(TRUE)
    ELSE IF key = KeyPageSize THEN PyInt(100)
    ELSE NoKeyValue

PrecedenceKeys == { KeyOutputFormat, KeyColorOutput, KeyPageSize, KeyApiKey }

\* C19: for each of output_format, color_output, page_size and api_key the
\* loaded value is what the non-empty environment variable says (color true
\* iff its lower case is true, 1 or yes; page_size an integer, ignored when
\* it does not parse), else the value of the file, else the default.
C19_Precedence ==
    ppc = "cfg_loaded" /\ out.calls = <<>> =>
        \A key \in PrecedenceKeys :
            Get(out.config, key, NoKeyValue) =
                IF EnvApplies(arg.env, key) THEN EnvSays(arg.env, key)
                ELSE IF FileSays(arg.file, key) # NoKeyValue THEN FileSays(arg.file, key)
                ELSE DefaultOf(key)

\* A configuration was loaded where the file gives every key, the variable of
\* color_output is empty, that of page_size does not parse and that of
\* api_key is set.
C19_Witness ==
    /\ ppc = "cfg_loaded"
    /\ Len(arg.file.doc) = Len(FileEntries)
    /\ arg.env[KeyColorOutput] = Str(<<>>)
    /\ arg.env[KeyPageSize] = Str(<<"a", "b", "c">>)
    /\ arg.env[KeyApiKey] = Str(<<"k">>)
    /\ ConfigGet(out.config, KeyApiKey) = Str(<<"k">>)
    /\ ConfigGet(out.config, KeyPageSize) = PyInt(25)
    /\ ConfigGet(out.config, KeyColorOutput) = Bool(FALSE)

\* The value of the last set(key, value) among the calls.
LastSet(calls, key) ==
    calls[CHOOSE i \in 1..Len(calls) :
              calls[i].name = key /\ \A j \in (i + 1)..Len(calls) : calls[j].name # key].value

\* C20: after set calls and save(), a new Config of the same path returns for
\* every key that was set the last value set, unless an environment variable
\* overrides the key.
C20_SaveLoadRoundTrip ==
    ppc = "cfg_reloaded" =>
        \A key \in SetKeys :
            ((\E i \in 1..Len(out.calls) : out.calls[i].name = key)
             /\ ~(key \in DOMAIN arg.env /\ EnvApplies(arg.env, key))) =>
                ConfigGet(out.reloaded, key) = LastSet(out.calls, key)

\* A str that reads as a bool was set, saved and reloaded.
C20_Witness ==
    /\ ppc = "cfg_reloaded"
    /\ Len(out.calls) = 2
    /\ out.calls[2] = Entry(KeyCustomValue, Str(<<"t", "r", "u", "e">>))
    /\ out.calls[1].name = KeyCustomValue
    /\ ConfigGet(out.reloaded, KeyCustomValue) = Str(<<"t", "r", "u", "e">>)

\* The command has loaded its file.
BulkRan == ppc \in {"bulk_confirm", "bulk_loop", "bulk_done"}

\* C21: with --dry-run, or when the confirmation prompt is answered no, the
\* bulk commands never call create_page or update_page, whatever the file
\* holds.
C21_DryRunNoCalls ==
    (BulkRan /\ (arg.dry_run \/ out.answer = "no")) => out.calls = <<>>

\* delete-pages --dry-run --force has previewed two page ids and ended.
C21_Witness ==
    /\ ppc = "bulk_done"
    /\ arg.command = "delete-pages" /\ arg.dry_run /\ arg.force
    /\ Len(out.work) = 2
    /\ out.exit = 0 /\ out.calls = <<>>

\* The item has no non-empty id field.
LacksId(item) == item.kind = "str" \/ item.id \in {"absent", ""}

Occurrences(s, x) == Cardinality({ k \in 1..Len(s) : s[k] = x })

\* The loop of the command has run to its end.
BulkCompleted == ppc = "bulk_done" /\ out.message = "results"

\* C24: in create-pages and delete-pages every input item is attempted
\* exactly once in file order and ends in exactly one of the success list and
\* the failure list; in update-pages successes + failures never exceeds the
\* number of items.
C24_EveryItemOnce ==
    BulkCompleted =>
        IF arg.command = "update-pages"
        THEN Len(out.succeeded) + Len(out.failed) <= Len(arg.data)
        ELSE /\ out.attempted = [i \in 1..Len(arg.data) |-> i]
             /\ \A i \in 1..Len(arg.data) :
                    Occurrences(out.succeeded \o out.failed, i) = 1

\* The items delete-pages does not skip: bare strings and mappings with a
\* non-empty id.
Kept(command, data) ==
    { i \in 1..Len(data) : command = "delete-pages" => ~(data[i].kind = "dict" /\ LacksId(data[i])) }

\* C24, amended: the items attempted are all items, and in delete-pages the
\* items with an id; each is attempted exactly once in file order whatever
\* happened to the items before it, and on completion is in exactly one of
\* the two lists (create-pages, delete-pages) or in at most one (update-pages).
C24_EveryKeptItemOnce ==
    BulkCompleted =>
        LET kept == Kept(arg.command, arg.data)
            both == out.succeeded \o out.failed
        IN /\ { out.attempted[k] : k \in 1..Len(out.attempted) } = kept
           /\ \A k \in 1..(Len(out.attempted) - 1) : out.attempted[k] < out.attempted[k + 1]
           /\ \A i \in 1..Len(arg.data) :
                  /\ Occurrences(both, i) <= 1
                  /\ i \notin kept => Occurrences(both, i) = 0
                  /\ arg.command # "update-pages" /\ i \in kept => Occurrences(both, i) = 1
           /\ arg.command # "update-pages" => Len(both) = Cardinality(kept)
           /\ Len(both) <= Len(arg.data)

\* delete-pages skipped its first item, failed on none and archived the other.
C24_Witness ==
    /\ BulkCompleted
    /\ arg.command = "delete-pages"
    /\ arg.data = << DictItem("absent", "T", "absent"), DictItem("p1", "T", "absent") >>
    /\ out.attempted = << 2 >> /\ out.succeeded = << 2 >> /\ out.failed = <<>>

\* The call has ended.
PagEnded == pc \in {"returned", "raised"}

\* C23: against the same sequence of responses the five list methods issue
\* the same sequence of start cursors and return the same concatenation of
\* results.
C23_OneAggregator ==
    PagEnded =>
        \A m \in Methods :
            /\ RunOf(m, script).requests = requests
            /\ pc = "returned" => RunOf(m, script).results = returned

\* The run computed as a whole is the run the steps of the method made.
C23_RunIsTheMethod ==
    PagEnded =>
        /\ RunOf(method, script).requests = requests
        /\ RunOf(method, script).outcome = pc
        /\ pc = "returned" => RunOf(method, script).results = returned

\* No page is requested twice.
NoPageTwice ==
    \A j \in 1..Len(requests) : \A k \in 1..Len(requests) :
        j < k => PageAddressed(requests[j]) # PageAddressed(requests[k])

\* C25: against a server that holds finitely many pages and answers each
\* cursor with the page it addresses, every list method eventually returns
\* and never requests the same page twice.
C25_Termination == <>(pc = "returned") /\ []NoPageTwice

\* search returned after it fetched each of three pages.
C25_Witness ==
    /\ pc = "returned"
    /\ method = "search"
    /\ Len(script) = MaxPages
    /\ Len(requests) = Len(script)

\* C26: search, page search and database query with --limit L print at most
\* L results, whatever number of results the server holds.
C26_LimitIsUpperBound ==
    ppc = "lim_done" => Len(out.printed) <= arg.limit

\* C27: database create-page always sends the page-create request with the
\* parent {database_id: <the id given>}, the database whose schema was read.
C27_DatabaseParent ==
    \A k \in 1..Len(remote) :
        remote[k].op = "pages.create" =>
            remote[k].request.parent = ParentDict("database_id", database_id)

\* C28: the text config show and config get api_key print for a stored key
\* withholds some character of the key.
C28_KeyWithheld ==
    (ppc \in {"shown", "got"} /\ out.printed /\ arg.s # <<>>) =>
        \E i \in 1..Len(arg.s) :
            \A j \in 1..Len(out.text) : out.text[j] # arg.s[i]

\* C28 for the keys of 15 characters and more: the characters between the
\* first ten and the last four are withheld.
C28_LongKeyWithheld ==
    (ppc \in {"shown", "got"} /\ out.printed /\ Len(arg.s) > ShownHead + ShownTail) =>
        \E i \in 1..Len(arg.s) :
            \A j \in 1..Len(out.text) : out.text[j] # arg.s[i]

\* The values the document holds under the name.
DocValues(doc, name) == { doc[i].value : i \in { j \in DOMAIN doc : doc[j].name = name } }

\* The names of the document.
DocNames(doc) == { doc[i].name : i \in DOMAIN doc }

\* C29: after config set KEY VALUE the file differs from the file before it
\* only in KEY; values from the environment or the defaults are not written.
C29_OnlyKeyChanges ==
    ppc = "set_done" =>
        \A name \in (DocNames(out.file.doc) \cup DocNames(arg.file.doc)) \ {arg.key} :
            DocValues(out.file.doc, name) = DocValues(arg.file.doc, name)

\* C29, the part that holds: a successful config set writes KEY with the
\* converted value, and a refused one leaves the file as it was.
C29_KeyWritten ==
    ppc = "set_done" =>
        IF out.exit = 0
        THEN DocValues(out.file.doc, arg.key)
                 = { YamlDump(TypedValue(arg.key, arg.value).value) }
        ELSE out.file = arg.file

\* The input the loop handled last.
LastInput == out.inputs[Len(out.inputs)]

\* The loop has handled an input.
Handled == ppc \in {"int_prompt", "int_ended"} /\ out.inputs # <<>>

\* The last input is exit, quit or the end of the input.
AskedToLeave ==
    \/ LastInput.event = "eof"
    \/ /\ LastInput.event = "line"
       /\ ShlexSplit(LastInput.line).ok
       /\ ShlexSplit(LastInput.line).args # <<>>
       /\ ShlexSplit(LastInput.line).args[1] \in { WordExit, WordQuit }

\* C30: the interactive loop ends only on exit, quit or the end of the
\* input; after any other input the next prompt is shown.
C30_EndsOnlyWhenAsked ==
    Handled => (ppc = "int_ended" <=> AskedToLeave)

\* C30, the part that holds: the loop ends when asked to, and a blank or
\* unparsable line, an interrupt at the prompt, clear, help, and a command
\* that returns or ends in the SystemExit of its own error handler are
\* followed by the next prompt.
C30_EndsWhenAskedOrRaised ==
    Handled =>
        (ppc = "int_ended" <=>
            \/ AskedToLeave
            \/ LastInput.raised \in { "UsageError", "Abort", "Exception" })

====
